---- MODULE Spec2Model ----
(***************************************************************************)
(* A model of the ledger of blockchain_project: transactions and blocks    *)
(* with their hashing and validity rules (src/src/block.rs) and the        *)
(* ledger with its pending pool, balance table, mining, difficulty         *)
(* retargeting and chain replacement (src/src/blockchain.rs).              *)
(*                                                                         *)
(* Strings are sequences of ASCII codes, so that format!() is sequence     *)
(* concatenation and starts_with() is a prefix comparison.                 *)
(*                                                                         *)
(* A u64 value x is represented by the integer x when x < 2^63 and by      *)
(* x - 2^64 otherwise, so that wrapping arithmetic is integer arithmetic   *)
(* on the representatives (all magnitudes of the model are far below 2^63).*)
(***************************************************************************)
EXTENDS Integers, Sequences, FiniteSets, Bags, TLC

VARIABLES
    chain,                  \* Blockchain.chain: Vec<Block>
    pending_transactions,   \* Blockchain.pending_transactions: Vec<Transaction>
    difficulty,             \* Blockchain.difficulty: u32
    mining_reward,          \* Blockchain.mining_reward: u64
    balances,               \* Blockchain.balances: HashMap<String, u64>
    now,                    \* the wall clock read by Utc::now(), in seconds
    overflow_checks,        \* the build: TRUE = arithmetic overflow panics, FALSE = it wraps
    panicked,               \* a panic unwound out of a ledger operation (lock poisoned)
    seeded,                 \* history: the balance table before the first block was mined
    ret,                    \* the last call and what it returned
    connections,            \* the open TCP connections between this node and its peer
    peers,                  \* P2PNode.peers: the registered peers and when they were last seen
    heartbeat,              \* the second at which the sleep of heartbeat_loop ends
    listener,               \* the thread of listen_for_connections is running
    file,                   \* the JSON document in blockchain.json, None before it is written
    held,                   \* the locks each thread holds, in the order it took them
    todo,                   \* the locks each thread has still to take for the call it is in
    mined,                  \* mine_pending_transactions: new_block, mined and not yet pushed
    consensus_type,         \* Blockchain.consensus_type: ConsensusType
    pos_consensus,          \* Blockchain.pos_consensus: Option<ProofOfStake>
    dpos_consensus,         \* Blockchain.dpos_consensus: Option<DelegatedProofOfStake>
    delegated               \* history: the amount of the last delegate call accepted for
                            \* each delegator and candidate

consensus == <<consensus_type, pos_consensus, dpos_consensus, delegated>>

ledger == <<chain, pending_transactions, difficulty, mining_reward, balances>>

process == <<connections, peers, heartbeat, listener, file, held, todo, mined, consensus>>

threads == <<held, todo, mined>>

vars == <<chain, pending_transactions, difficulty, mining_reward, balances,
          now, overflow_checks, panicked, seeded, ret, connections, peers, heartbeat, listener,
          file, held, todo, mined, consensus>>

----------------------------------------------------------------------------
(* Bounds of the model *)

MaxChain == 3           \* blocks in the chain, genesis included
MaxPending == 1         \* transactions in the pending pool
MaxPoolChain == 2       \* blocks in the chain when the pool is the subject
MaxPool == 2            \* transactions in the pending pool when it is the subject
MaxAmount == 1          \* largest amount of a submitted transaction
MaxSeed == 1            \* largest balance written into the table before the first block
MaxTime == 26           \* last second of the clock
HashZeroClasses == 21   \* a digest has 0 .. HashZeroClasses-1 leading zeros
MaxConnections == 1     \* connections open at a time
MaxSyncConnections == 3 \* connections open at a time during a synchronisation
MaxBroadcastConnections == 3 \* connections open at a time with broadcasts
MaxLateness == 1        \* seconds the heartbeat thread runs after the end of its sleep
MaxSeenTime == 2        \* last second at which a peer registers when sweeps are the subject
MaxHeartbeatTime == 100 \* last second of the clock when sweeps are the subject
MaxFaultConnections == 2 \* connections open at a time when faults are the subject
MaxUnread == 2          \* messages written on a connection and not yet read
MaxReplies == 1         \* answers written on a connection
OversizeBlocks == 16    \* blocks of a chain whose encoding is longer than the read buffer
MaxSnapshotTime == 5    \* last second at which a block of a saved ledger is mined
PeerStart == 1          \* second at which the ledger of the peer was made
MaxLockConnections == 2 \* connections of the node whose threads take the locks
MaxLockChain == 3       \* blocks of the node whose threads take the locks
MaxCandidates == 3      \* entries of the candidate list of the delegated strategy

(* Program constants *)

DefaultDifficulty == 4           \* Blockchain::default: Self::new(4, 100)
DefaultReward == 100            \* Blockchain::default: Self::new(4, 100)
SystemInitialBalance == 1000    \* Blockchain::new: balances.insert("system", 1000)
TargetTime == 10                \* adjust_difficulty: chrono::Duration::seconds(10)
MaxDifficulty == 20             \* adjust_difficulty: .min(20)
MinDifficulty == 1              \* adjust_difficulty: .max(1)
ZeroHashLen == 64               \* create_genesis: prev_hash of 64 zeros
ReadBufferSize == 4096          \* handle_connection: let mut buffer = [0; 4096]
HeartbeatSleep == 30            \* heartbeat_loop: thread::sleep(Duration::from_secs(30))
PeerTimeout == 60               \* heartbeat_loop: last_seen.elapsed() > Duration::from_secs(60)
DateTimeLen == 20               \* DateTime<Utc> of a whole second as serde writes it

----------------------------------------------------------------------------
(* Strings *)

Ch0 == 48      \* '0'
Colon == 58    \* ':'
PosMinimumStake == 100         \* consensus_menu: ProofOfStake::new(100)
DposMinimumStake == 1000       \* consensus_menu: DelegatedProofOfStake::new(1000, 100)
DposMinimumDelegation == 100   \* consensus_menu: DelegatedProofOfStake::new(1000, 100)

system == <<115, 121, 115, 116, 101, 109>>            \* "system"
genesis == <<103, 101, 110, 101, 115, 105, 115>>    \* "genesis"
alice == <<97>>                                       \* "a"
bob == <<98>>                                         \* "b"
tx_prefix == <<116, 120, 95>>                         \* "tx_"

Addresses == {system, genesis, alice, bob}

\* The threads of a node: the menu of main, listen_for_connections,
\* handle_connection and heartbeat_loop
Threads == {"main", "listener", "handler", "heartbeat"}
Miners == {bob}                 \* the miner addresses tried
SeedAddresses == {alice}        \* the addresses given a balance before the first block

None == <<>>

\* str::repeat
Repeat(c, n) == [i \in 1..n |-> c]

RECURSIVE ToDecimal(_)
\* Display of a non-negative integer
ToDecimal(n) == IF n < 10 THEN <<Ch0 + n>> ELSE ToDecimal(n \div 10) \o <<Ch0 + (n % 10)>>

\* str::starts_with
StartsWith(s, prefix) ==
    /\ Len(prefix) <= Len(s)
    /\ SubSeq(s, 1, Len(prefix)) = prefix

\* The sum of the bytes of s: a sequence of positive numbers is a bag that
\* holds s[i] copies of i.
SumBytes(s) == BagCardinality(s)

\* The number of leading zero hex digits of the digest of data: a fixed
\* function of the bytes hashed.
LeadingZeros(data) == SumBytes(data) % HashZeroClasses

\* Sha256 followed by format!("{:x}"): deterministic and collision free.  The
\* digest is its run of leading zeros, a non-zero digit ('f'), and the rest,
\* which determines the bytes hashed.
Sha256Hex(data) == Repeat(Ch0, LeadingZeros(data)) \o <<102>> \o data

----------------------------------------------------------------------------
(* Transaction (src/src/block.rs) *)

\* Transaction::new
Transaction_new(sender, receiver, amount, t) ==
    [id |-> tx_prefix \o ToDecimal(t),
     sender |-> sender,
     receiver |-> receiver,
     amount |-> amount,
     timestamp |-> t,
     signature |-> None,
     public_key |-> None]

\* Transaction::calculate_hash
Transaction_calculate_hash(tx) ==
    Sha256Hex(tx.sender \o tx.receiver \o ToDecimal(tx.amount)
              \o ToDecimal(tx.timestamp) \o tx.id)

\* The Ed25519 key pairs, by number
KeyPairs == {1, 2}

\* hex::encode(keypair.public_key())
public_key_hex(keypair) == <<112>> \o ToDecimal(keypair)

\* hex::encode(keypair.sign(message)): a signature belongs to one key pair and
\* one message
sign_hex(keypair, message) == <<115>> \o ToDecimal(keypair) \o message

\* UnparsedPublicKey::new(&ED25519, public_key).verify(message, signature)
ed25519_verify(public_key, message, signature) ==
    \E keypair \in KeyPairs :
        /\ public_key = public_key_hex(keypair)
        /\ signature = sign_hex(keypair, message)

\* Transaction::calculate_message_hash
Transaction_calculate_message_hash(tx) ==
    Sha256Hex(tx.sender \o tx.receiver \o ToDecimal(tx.amount)
              \o ToDecimal(tx.timestamp) \o tx.id)

\* Transaction::new_signed
Transaction_new_signed(sender, receiver, amount, keypair, t) ==
    LET transaction == [Transaction_new(sender, receiver, amount, t)
                           EXCEPT !.public_key = <<public_key_hex(keypair)>>]
        message == Transaction_calculate_message_hash(transaction)
    IN [transaction EXCEPT !.signature = <<sign_hex(keypair, message)>>]

\* Transaction::verify_signature
Transaction_verify_signature(tx) ==
    IF tx.signature = None \/ tx.public_key = None THEN FALSE
    ELSE ed25519_verify(tx.public_key[1], Transaction_calculate_message_hash(tx),
                        tx.signature[1])

----------------------------------------------------------------------------
(* Block (src/src/block.rs) *)

RECURSIVE ConcatTxHashes(_)
\* transactions.iter().map(|tx| tx.calculate_hash()).collect::<String>()
ConcatTxHashes(txs) ==
    IF txs = <<>> THEN <<>>
    ELSE Transaction_calculate_hash(Head(txs)) \o ConcatTxHashes(Tail(txs))

\* Block::calculate_hash
Block_calculate_hash(b) ==
    Sha256Hex(ToDecimal(b.header.timestamp) \o b.header.prev_hash
              \o ToDecimal(b.header.nonce) \o ToDecimal(b.header.difficulty)
              \o ToDecimal(b.height) \o ConcatTxHashes(b.transactions))

\* Block::new
Block_new(prev_hash, transactions, height, diff, t) ==
    LET block == [header |-> [timestamp |-> t,
                              prev_hash |-> prev_hash,
                              hash |-> <<>>,
                              nonce |-> 0,
                              difficulty |-> diff,
                              validator |-> None],
                  transactions |-> transactions,
                  height |-> height]
    IN [block EXCEPT !.header.hash = Block_calculate_hash(block)]

\* Block::create_genesis
Block_create_genesis(diff, t) ==
    Block_new(Repeat(Ch0, ZeroHashLen),
             <<Transaction_new(system, genesis, 0, t)>>, 0, diff, t)

\* Block::is_valid_hash
Block_is_valid_hash(b) == StartsWith(b.header.hash, Repeat(Ch0, b.header.difficulty))

RECURSIVE Block_mine(_)
\* Block::mine
Block_mine(b) ==
    IF Block_is_valid_hash(b) THEN b
    ELSE LET b1 == [b EXCEPT !.header.nonce = @ + 1]
         IN Block_mine([b1 EXCEPT !.header.hash = Block_calculate_hash(b1)])

\* Block::is_valid
Block_is_valid(b, prev_hash) ==
    /\ b.header.prev_hash = prev_hash
    /\ b.header.hash = Block_calculate_hash(b)
    /\ Block_is_valid_hash(b)

----------------------------------------------------------------------------
(* u64 arithmetic on representatives *)

\* a < b as u64 values
U64Less(a, b) ==
    \/ a >= 0 /\ b < 0
    \/ (a >= 0 <=> b >= 0) /\ a < b

\* a - b leaves the u64 range (b is a small non-negative amount)
SubOverflows(a, b) == U64Less(a, b)

\* a + b leaves the u64 range (b is a small non-negative amount)
AddOverflows(a, b) == a < 0 /\ a + b >= 0

----------------------------------------------------------------------------
(* Blockchain (src/src/blockchain.rs) *)

\* HashMap::insert
Insert(map, key, value) ==
    [k \in (DOMAIN map) \cup {key} |-> IF k = key THEN value ELSE map[k]]

\* Blockchain::get_balance, and balances.get(..).unwrap_or(&0)
get_balance(bal, address) == IF address \in DOMAIN bal THEN bal[address] ELSE 0

\* Blockchain::get_latest_block
get_latest_block(c) == c[Len(c)]

\* update_balances forgetting to debit the sender
apply_transaction_without_debit(st, tx, checks) ==
    IF st.panicked THEN st
    ELSE
      LET receiver_balance == get_balance(st.balances, tx.receiver)
          credit_panics == tx.receiver # genesis /\ checks
                           /\ AddOverflows(receiver_balance, tx.amount)
      IN IF credit_panics THEN [balances |-> st.balances, panicked |-> TRUE]
         ELSE IF tx.receiver # genesis
         THEN [balances |-> Insert(st.balances, tx.receiver, receiver_balance + tx.amount),
               panicked |-> FALSE]
         ELSE st

\* The body of the inner loop of update_balances for one transaction.  st is
\* the table so far and whether an arithmetic overflow has panicked.
apply_transaction(st, tx, checks) ==
    IF st.panicked THEN st
    ELSE
      LET sender_balance == get_balance(st.balances, tx.sender)
          debit_panics == tx.sender # system /\ checks
                          /\ SubOverflows(sender_balance, tx.amount)
          bal1 == IF tx.sender # system
                  THEN Insert(st.balances, tx.sender, sender_balance - tx.amount)
                  ELSE st.balances
          receiver_balance == get_balance(bal1, tx.receiver)
          credit_panics == tx.receiver # genesis /\ checks
                           /\ AddOverflows(receiver_balance, tx.amount)
          bal2 == IF tx.receiver # genesis
                  THEN Insert(bal1, tx.receiver, receiver_balance + tx.amount)
                  ELSE bal1
      IN IF debit_panics THEN [balances |-> st.balances, panicked |-> TRUE]
         ELSE IF credit_panics THEN [balances |-> bal1, panicked |-> TRUE]
         ELSE [balances |-> bal2, panicked |-> FALSE]

RECURSIVE apply_transactions(_, _, _)
\* for transaction in &block.transactions
apply_transactions(st, txs, checks) ==
    IF txs = <<>> THEN st
    ELSE apply_transactions(apply_transaction(st, Head(txs), checks), Tail(txs), checks)

RECURSIVE apply_blocks(_, _, _)
\* for block in &self.chain
apply_blocks(st, c, checks) ==
    IF c = <<>> THEN st
    ELSE apply_blocks(apply_transactions(st, Head(c).transactions, checks), Tail(c), checks)

\* Blockchain::update_balances: starts from the stored table, does not clear it
update_balances(bal, c, checks) ==
    apply_blocks([balances |-> bal, panicked |-> FALSE], c, checks)

\* is_chain_valid taking every chain for valid
accept_any_chain(c) == TRUE

\* is_chain_valid checking the links between the blocks only
is_chain_linked(c) ==
    \A i \in 2..Len(c) : c[i].header.prev_hash = c[i - 1].header.hash

\* Blockchain::is_chain_valid
is_chain_valid(c) ==
    \A i \in 2..Len(c) :
        /\ Block_is_valid(c[i], c[i - 1].header.hash)
        /\ c[i].header.prev_hash = c[i - 1].header.hash

\* adjust_difficulty without the cap and the floor
adjust_difficulty_unbounded(diff, c) ==
    IF Len(c) < 2 THEN diff
    ELSE LET time_diff == c[Len(c)].header.timestamp - c[Len(c) - 1].header.timestamp
         IN IF time_diff < TargetTime THEN diff + 1
            ELSE IF time_diff > TargetTime * 2 THEN diff - 1
            ELSE diff

\* adjust_difficulty lowering the difficulty from twice the target on
adjust_difficulty_from_twice_target(diff, c) ==
    IF Len(c) < 2 THEN diff
    ELSE LET time_diff == c[Len(c)].header.timestamp - c[Len(c) - 1].header.timestamp
         IN IF time_diff < TargetTime
            THEN (IF diff + 1 < MaxDifficulty THEN diff + 1 ELSE MaxDifficulty)
            ELSE IF time_diff >= TargetTime * 2
            THEN (IF diff - 1 > MinDifficulty THEN diff - 1 ELSE MinDifficulty)
            ELSE diff

\* Blockchain::adjust_difficulty: the new value of self.difficulty
adjust_difficulty(diff, c) ==
    IF Len(c) < 2 THEN diff
    ELSE LET time_diff == c[Len(c)].header.timestamp - c[Len(c) - 1].header.timestamp
         IN IF time_diff < TargetTime
            THEN (IF diff + 1 < MaxDifficulty THEN diff + 1 ELSE MaxDifficulty)
            ELSE IF time_diff > TargetTime * 2
            THEN (LET lower == IF diff >= 1 THEN diff - 1 ELSE 0
                  IN IF lower > MinDifficulty THEN lower ELSE MinDifficulty)
            ELSE diff

----------------------------------------------------------------------------
(* The state after construction *)

TimeSteps == {0, TargetTime, 2 * TargetTime + 1}   \* seconds between two calls

Amounts == 0..MaxAmount

NoError == "none"

\* The seconds at which the ledger is built: the genesis hash built at the
\* first happens to meet the difficulty, the one built at the second does not.
StartTimes == {0, 5}

\* Blockchain::new: the balance table of a new ledger
InitialBalances == Insert(<<>>, system, SystemInitialBalance)

\* Blockchain::new(difficulty, mining_reward)
Blockchain_new(diff, reward) ==
    /\ difficulty = diff
    /\ mining_reward = reward
    /\ now \in StartTimes
    /\ chain = <<Block_create_genesis(difficulty, now)>>
    /\ pending_transactions = <<>>
    /\ balances = InitialBalances
    /\ overflow_checks \in BOOLEAN
    /\ panicked = FALSE
    /\ seeded = balances
    /\ ret = [op |-> "new", ok |-> TRUE, err |-> NoError, block |-> None]
    /\ connections = <<>>
    /\ peers = <<>>
    /\ heartbeat = HeartbeatSleep
    /\ listener = TRUE
    /\ file = None
    /\ held = [t \in Threads |-> <<>>]
    /\ todo = [t \in Threads |-> <<>>]
    /\ mined = None
    /\ consensus_type = "PoW"
    /\ pos_consensus = None
    /\ dpos_consensus = None
    /\ delegated = <<>>

\* Blockchain::default(): Self::new(4, 100)
Init == Blockchain_new(DefaultDifficulty, DefaultReward)

----------------------------------------------------------------------------
(* Operations *)

\* A direct write to the public balance table of a ledger that has only its
\* genesis block: blockchain.balances.insert(address, value)
seed_balance(address, value) ==
    /\ ~panicked
    /\ ret.op = "new"
    /\ balances' = Insert(balances, address, value)
    /\ seeded' = balances'
    /\ ret' = [op |-> "seed_balance", ok |-> TRUE, err |-> NoError, block |-> None]
    /\ UNCHANGED <<chain, pending_transactions, difficulty, mining_reward,
                   now, overflow_checks, panicked, connections, peers, heartbeat, listener, file, held, todo, mined, consensus>>

\* add_transaction with the amount check left out
add_transaction_error_without_amount_check(transaction, bal) ==
    IF transaction.sender = transaction.receiver THEN "same_party"
    ELSE IF U64Less(get_balance(bal, transaction.sender), transaction.amount)
         THEN "insufficient_balance"
    ELSE NoError

\* The checks of add_transaction: the error it returns for transaction, or
\* NoError
add_transaction_error(transaction, bal) ==
    IF transaction.sender = transaction.receiver THEN "same_party"
    ELSE IF transaction.amount = 0 THEN "zero_amount"
    ELSE IF U64Less(get_balance(bal, transaction.sender), transaction.amount)
         THEN "insufficient_balance"
    ELSE NoError

\* add_transaction keeping the id the transaction came with
keep_transaction_id(transaction) == transaction

\* add_transaction: transaction.id = transaction.calculate_hash()
assign_transaction_id(transaction) ==
    [transaction EXCEPT !.id = Transaction_calculate_hash(transaction)]

\* add_transaction putting the transaction in front of the queue
push_front_pending(pending, transaction) == <<transaction>> \o pending

\* add_transaction: self.pending_transactions.push(transaction)
push_pending(pending, transaction) == Append(pending, transaction)

\* Blockchain::add_transaction(transaction)
add_transaction(transaction) ==
    /\ ~panicked
    /\ LET err == add_transaction_error(transaction, balances)
       IN IF err # NoError
          THEN /\ ret' = [op |-> "add_transaction", ok |-> FALSE, err |-> "rejected",
                          block |-> None]
               /\ UNCHANGED pending_transactions
          ELSE /\ pending_transactions' =
                      push_pending(pending_transactions,
                                   assign_transaction_id(transaction))
               /\ ret' = [op |-> "add_transaction", ok |-> TRUE, err |-> NoError,
                          block |-> None]
    /\ UNCHANGED <<chain, difficulty, mining_reward, balances,
                   overflow_checks, panicked, seeded>>

\* add_transaction_cli: Transaction::new(sender, receiver, amount) handed to
\* add_transaction
submit_transaction(sender, receiver, amount) ==
    /\ add_transaction(Transaction_new(sender, receiver, amount, now))
    /\ UNCHANGED <<now, connections, peers, heartbeat, listener, file, held, todo, mined, consensus>>

\* add_signed_transaction_cli: Transaction::new_signed(sender, receiver, amount,
\* keypair) handed to add_transaction
submit_signed_transaction(sender, receiver, amount, keypair) ==
    /\ add_transaction(Transaction_new_signed(sender, receiver, amount, keypair, now))
    /\ UNCHANGED <<now, connections, peers, heartbeat, listener, file, held, todo, mined, consensus>>

\* mine_pending_transactions without its first check
never_empty(pending) == FALSE

\* mine_pending_transactions: self.pending_transactions.is_empty()
pending_is_empty(pending) == pending = <<>>

\* Blockchain::mine_pending_transactions(miner_address), d seconds after the
\* previous call (the clock is followed only up to the calls that read it)
mine_pending_transactions(miner_address, d) ==
    /\ ~panicked
    /\ pending_transactions = <<>> => d = 0
    /\ now' = now + d
    /\ IF pending_is_empty(pending_transactions)
       THEN /\ ret' = [op |-> "mine_pending_transactions", ok |-> FALSE,
                       err |-> "no_pending", block |-> None]
            /\ UNCHANGED <<chain, pending_transactions, difficulty, balances, panicked>>
       ELSE /\ LET reward_transaction ==
                       Transaction_new(system, miner_address, mining_reward, now')
                   transactions == Append(pending_transactions, reward_transaction)
                   prev_hash == get_latest_block(chain).header.hash
                   height == Len(chain)
               IN \E new_block \in {Block_mine(Block_new(prev_hash, transactions, height,
                                                         difficulty, now'))} :
                  \E updated \in {update_balances(balances, Append(chain, new_block),
                                                  overflow_checks)} :
                  /\ chain' = Append(chain, new_block)
                  /\ balances' = updated.balances
                  /\ panicked' = updated.panicked
                  /\ IF updated.panicked
                     THEN /\ ret' = [op |-> "mine_pending_transactions", ok |-> FALSE,
                                     err |-> "panic", block |-> None]
                          /\ UNCHANGED <<difficulty, pending_transactions>>
                     ELSE /\ difficulty' = adjust_difficulty(difficulty, chain')
                          /\ pending_transactions' = <<>>
                          /\ ret' = [op |-> "mine_pending_transactions", ok |-> TRUE,
                                     err |-> NoError, block |-> <<new_block>>]
    /\ UNCHANGED <<mining_reward, overflow_checks, seeded, connections, peers, heartbeat, listener, file, held, todo, mined, consensus>>

----------------------------------------------------------------------------
(* The ledger changed by add_transaction and mine_pending_transactions only *)

Seed == \E address \in SeedAddresses, value \in 1..MaxSeed : seed_balance(address, value)

AddTransaction ==
    /\ Len(pending_transactions) < MaxPending
    /\ \E sender \in Addresses, receiver \in Addresses, amount \in Amounts :
          submit_transaction(sender, receiver, amount)

MinePending ==
    /\ Len(chain) < MaxChain
    /\ \E miner_address \in Miners, d \in TimeSteps :
          /\ now + d <= MaxTime
          /\ mine_pending_transactions(miner_address, d)

Next == Seed \/ AddTransaction \/ MinePending

Spec == Init /\ [][Next]_vars

----------------------------------------------------------------------------
(* Chain replacement *)

\* replace_chain turning away only a shorter chain
chain_is_shorter(new_chain, c) == Len(new_chain) < Len(c)

\* replace_chain taking a chain of any length
any_length(new_chain, c) == FALSE

\* replace_chain: new_chain.len() <= self.chain.len()
chain_is_not_longer(new_chain, c) == Len(new_chain) <= Len(c)

\* Blockchain::replace_chain(new_chain)
replace_chain(new_chain) ==
    /\ ~panicked
    /\ IF chain_is_not_longer(new_chain, chain)
       THEN /\ ret' = [op |-> "replace_chain", ok |-> FALSE, err |-> "not_longer",
                       block |-> None]
            /\ UNCHANGED <<chain, balances, difficulty, panicked>>
       ELSE IF is_chain_valid(new_chain)
       THEN /\ \E updated \in {update_balances(balances, new_chain, overflow_checks)} :
                  /\ chain' = new_chain
                  /\ balances' = updated.balances
                  /\ panicked' = updated.panicked
                  /\ IF updated.panicked
                     THEN /\ ret' = [op |-> "replace_chain", ok |-> FALSE,
                                     err |-> "panic", block |-> None]
                          /\ UNCHANGED difficulty
                     ELSE /\ difficulty' = adjust_difficulty(difficulty, new_chain)
                          /\ ret' = [op |-> "replace_chain", ok |-> TRUE,
                                     err |-> NoError, block |-> None]
       ELSE /\ ret' = [op |-> "replace_chain", ok |-> FALSE, err |-> "invalid",
                       block |-> None]
            /\ UNCHANGED <<chain, balances, difficulty, panicked>>
    /\ UNCHANGED <<pending_transactions, mining_reward, now, overflow_checks, seeded>>

\* A block a peer mined on top of the chain c: one transfer and the reward
PeerBlock(c, t) ==
    LET transfer == Transaction_new(system, alice, 1, t)
        accepted == [transfer EXCEPT !.id = Transaction_calculate_hash(transfer)]
        reward == Transaction_new(system, bob, DefaultReward, t)
    IN Block_mine(Block_new(get_latest_block(c).header.hash, <<accepted, reward>>,
                            Len(c), c[Len(c)].header.difficulty, t))

\* The chains a peer sends: the prefixes of the local chain, a single block,
\* the local chain extended by a block of the peer, and that extension with
\* the block changed after mining, mined on another predecessor or left at
\* nonce 0.
CandidateChains(block, unlinked) ==
    LET tampered == [block EXCEPT !.transactions[1].amount = 2]
        at_nonce_0 == [block EXCEPT !.header.nonce = 0]
        unmined == [at_nonce_0 EXCEPT !.header.hash = Block_calculate_hash(at_nonce_0)]
    IN {SubSeq(chain, 1, k) : k \in 0..Len(chain)}
       \cup {<<block>>, Append(chain, block), Append(chain, tampered),
             Append(chain, unlinked), Append(chain, unmined)}

ReplaceChain ==
    /\ Len(chain) < MaxChain
    /\ \E block \in {PeerBlock(chain, now)} :
          \E unlinked \in {PeerBlock(<<block>>, now)} :
            \E new_chain \in CandidateChains(block, unlinked) : replace_chain(new_chain)
    /\ UNCHANGED process

\* The ledger with a deeper pending pool and a shorter chain
AddTransactionPool ==
    /\ Len(pending_transactions) < MaxPool
    /\ \E sender \in Addresses, receiver \in Addresses, amount \in Amounts :
          submit_transaction(sender, receiver, amount)

MinePendingPool ==
    /\ Len(chain) < MaxPoolChain
    /\ \E miner_address \in Miners, d \in TimeSteps :
          /\ now + d <= MaxTime
          /\ mine_pending_transactions(miner_address, d)

NextPool == Seed \/ AddTransactionPool \/ MinePendingPool

SpecPool == Init /\ [][NextPool]_vars

\* The scenario of one transfer on a new ledger: any address seeded, one
\* transaction accepted, one block mined by any address
SeedAny == \E address \in Addresses, value \in 1..MaxSeed : seed_balance(address, value)

AddTransactionScenario ==
    /\ Len(chain) = 1
    /\ pending_transactions = <<>>
    /\ \E sender \in Addresses, receiver \in Addresses, amount \in Amounts :
          submit_transaction(sender, receiver, amount)

MineScenario ==
    /\ Len(chain) = 1
    /\ \E miner_address \in Addresses, d \in TimeSteps :
          mine_pending_transactions(miner_address, d)

NextScenario == SeedAny \/ AddTransactionScenario \/ MineScenario

SpecScenario == Init /\ [][NextScenario]_vars

NextReplace == Seed \/ AddTransaction \/ MinePending \/ ReplaceChain

\* The ledger changed by add_transaction, mine_pending_transactions and
\* replace_chain
SpecReplace == Init /\ [][NextReplace]_vars

\* The ledger built at a difficulty at either end of the range, with blocks
\* mined and received at intervals around the target time
InitDifficulties == {MinDifficulty, MinDifficulty + 1, MaxDifficulty - 1, MaxDifficulty}

InitDifficulty == \E diff \in InitDifficulties : Blockchain_new(diff, DefaultReward)

DifficultyTimeSteps ==
    {0, TargetTime - 1, TargetTime, 2 * TargetTime, 2 * TargetTime + 1}

AddTransactionDifficulty ==
    /\ Len(pending_transactions) < MaxPending
    /\ submit_transaction(system, alice, MaxAmount)

MinePendingDifficulty ==
    /\ Len(chain) < MaxChain
    /\ \E miner_address \in Miners, d \in DifficultyTimeSteps :
          mine_pending_transactions(miner_address, d)

NextDifficulty == AddTransactionDifficulty \/ MinePendingDifficulty \/ ReplaceChain

SpecDifficulty == InitDifficulty /\ [][NextDifficulty]_vars

\* The ledger with signed transactions
AddSignedTransaction ==
    /\ Len(pending_transactions) < MaxPending
    /\ \E sender \in Addresses, receiver \in Addresses, amount \in Amounts,
          keypair \in KeyPairs :
          submit_signed_transaction(sender, receiver, amount, keypair)

NextSigned == Seed \/ AddSignedTransaction \/ MinePending

SpecSigned == Init /\ [][NextSigned]_vars

\* The places of the chain: block i, transaction j
ChainPlaces(c) == UNION {{<<i, j>> : j \in DOMAIN c[i].transactions} : i \in DOMAIN c}

----------------------------------------------------------------------------
(* The peer-to-peer node *)

local == "local"      \* this node
remote == "peer"      \* the node it is connected with
other == "other"      \* a node that has sent its address in a Discovery
ephemeral == "port"   \* the address a peer dials from, where nothing listens

\* HashMap::insert(address, PeerInfo { address, last_seen })
insert_peer(registry, address, last_seen) ==
    [a \in DOMAIN registry \cup {address} |->
        IF a = address THEN last_seen ELSE registry[a]]

\* enum Message
NewTransaction(transaction) == [kind |-> "NewTransaction", payload |-> <<transaction>>]
NewBlock(block) == [kind |-> "NewBlock", payload |-> <<block>>]
RequestChain == [kind |-> "RequestChain", payload |-> <<>>]
ResponseChain(c) == [kind |-> "ResponseChain", payload |-> c]
RequestChainLength == [kind |-> "RequestChainLength", payload |-> <<>>]
ResponseChainLength(length) == [kind |-> "ResponseChainLength", payload |-> <<length>>]
RequestBlocks(start, end) == [kind |-> "RequestBlocks", payload |-> <<start, end>>]
ResponseBlocks(blocks) == [kind |-> "ResponseBlocks", payload |-> blocks]
Discovery(address) == [kind |-> "Discovery", payload |-> <<address>>]
SyncStatus(chain_length, latest_hash, total_transactions) ==
    [kind |-> "SyncStatus", payload |-> <<chain_length, latest_hash, total_transactions>>]

\* A connection as TcpStream::connect and one write_all leave it: the dialer
\* has written one message and dropped its stream; the acceptor has a thread
\* in handle_connection that reads the messages and writes its answers on the
\* same stream, where nothing of the dialer reads them.
Dial(acceptor, message) ==
    [acceptor |-> acceptor, unread |-> <<message>>, taken |-> 0, replies |-> <<>>]

\* stream.write_all(&data) of an answer, and whether it returned Ok
Written(message, write_ok) == [message |-> message, ok |-> write_ok]

\* handle_chain_request: what is written on the stream
handle_chain_request(c) == ResponseChain(c)

\* handle_chain_length_request: what is written on the stream
handle_chain_length_request(c) == ResponseChainLength(Len(c))

\* handle_chain_length_response answering with the request for the whole chain
\* whatever the lengths are
always_request_chain(c, remote_length) == RequestChain

\* handle_chain_length_response: what is written on the stream
handle_chain_length_response(c, remote_length) ==
    LET local_length == Len(c)
    IN IF remote_length > local_length THEN RequestChain
       ELSE IF remote_length < local_length THEN ResponseChain(c)
       ELSE RequestBlocks(remote_length - 1, remote_length - 1)

\* handle_new_block appending the block it received
append_new_block(block) ==
    /\ ~panicked
    /\ chain' = Append(chain, block)
    /\ ret' = [op |-> "handle_new_block", ok |-> TRUE, err |-> NoError, block |-> None]
    /\ UNCHANGED <<pending_transactions, difficulty, mining_reward, balances, now,
                   overflow_checks, panicked, seeded>>

\* P2PNode::handle_new_block(blockchain, block)
handle_new_block(block) ==
    /\ ~panicked
    /\ IF ~is_chain_valid(chain)
       THEN /\ ret' = [op |-> "handle_new_block", ok |-> FALSE, err |-> "chain_invalid",
                       block |-> None]
            /\ UNCHANGED <<chain, pending_transactions, difficulty, mining_reward,
                           balances, now, overflow_checks, panicked, seeded>>
       ELSE IF block.header.prev_hash # get_latest_block(chain).header.hash
       THEN /\ ret' = [op |-> "handle_new_block", ok |-> FALSE, err |-> "not_linked",
                       block |-> None]
            /\ UNCHANGED <<chain, pending_transactions, difficulty, mining_reward,
                           balances, now, overflow_checks, panicked, seeded>>
       ELSE replace_chain(<<block>>)

\* handle_chain_response taking the chain it received as it is
adopt_chain_response(new_chain) ==
    /\ ~panicked
    /\ chain' = new_chain
    /\ ret' = [op |-> "handle_chain_response", ok |-> TRUE, err |-> NoError, block |-> None]
    /\ UNCHANGED <<pending_transactions, difficulty, mining_reward, balances, now,
                   overflow_checks, panicked, seeded>>

\* handle_chain_response taking the chain it received when it is shorter
take_shorter_chain(new_chain) ==
    /\ ~panicked
    /\ chain' = IF Len(new_chain) < Len(chain) THEN new_chain ELSE chain
    /\ ret' = [op |-> "handle_chain_response", ok |-> Len(new_chain) < Len(chain),
               err |-> NoError, block |-> None]
    /\ UNCHANGED <<pending_transactions, difficulty, mining_reward, balances, now,
                   overflow_checks, panicked, seeded>>

\* P2PNode::handle_chain_response(blockchain, new_chain)
handle_chain_response(new_chain) ==
    /\ ~panicked
    /\ IF new_chain = <<>>
       THEN /\ ret' = [op |-> "handle_chain_response", ok |-> FALSE, err |-> "empty",
                       block |-> None]
            /\ UNCHANGED <<chain, pending_transactions, difficulty, mining_reward,
                           balances, now, overflow_checks, panicked, seeded>>
       ELSE IF \E i \in 2..Len(new_chain) :
                   ~Block_is_valid(new_chain[i], new_chain[i - 1].header.hash)
       THEN /\ ret' = [op |-> "handle_chain_response", ok |-> FALSE, err |-> "invalid",
                       block |-> None]
            /\ UNCHANGED <<chain, pending_transactions, difficulty, mining_reward,
                           balances, now, overflow_checks, panicked, seeded>>
       ELSE IF Len(new_chain) > Len(chain)
       THEN replace_chain(new_chain)
       ELSE /\ ret' = [op |-> "handle_chain_response", ok |-> FALSE, err |-> "not_longer",
                       block |-> None]
            /\ UNCHANGED <<chain, pending_transactions, difficulty, mining_reward,
                           balances, now, overflow_checks, panicked, seeded>>

\* The check of handle_blocks_response: the first block on the latest local
\* block, every other block on the one before it
blocks_are_linked(c, blocks) ==
    \A i \in DOMAIN blocks :
        blocks[i].header.prev_hash
            = IF i = 1 THEN get_latest_block(c).header.hash ELSE blocks[i - 1].header.hash

\* P2PNode::handle_blocks_response(blockchain, blocks)
handle_blocks_response(blocks) ==
    /\ ~panicked
    /\ IF blocks = <<>>
       THEN /\ ret' = [op |-> "handle_blocks_response", ok |-> FALSE, err |-> "empty",
                       block |-> None]
            /\ UNCHANGED chain
       ELSE IF ~blocks_are_linked(chain, blocks)
       THEN /\ ret' = [op |-> "handle_blocks_response", ok |-> FALSE, err |-> "not_linked",
                       block |-> None]
            /\ UNCHANGED chain
       ELSE /\ chain' = chain \o blocks
            /\ ret' = [op |-> "handle_blocks_response", ok |-> TRUE, err |-> NoError,
                       block |-> None]
    /\ UNCHANGED <<pending_transactions, difficulty, mining_reward, balances, now,
                   overflow_checks, panicked, seeded>>

\* handle_blocks_request answering with every block from start on
blocks_from_start(c, start, end) ==
    IF start >= Len(c) \/ end < start THEN <<>>
    ELSE <<ResponseBlocks(SubSeq(c, start + 1, Len(c)))>>

\* handle_blocks_request: what is written on the stream, start and end being u64
handle_blocks_request(c, start, end) ==
    LET chain_length == Len(c)
    IN IF start >= chain_length \/ end < start THEN <<>>
       ELSE LET actual_end == IF end < chain_length - 1 THEN end ELSE chain_length - 1
            IN <<ResponseBlocks(SubSeq(c, start + 1, actual_end + 1))>>

\* The acceptor's thread has read from connection i, which left rest on the
\* stream, and written the answers in written.
Consumed(i, rest, written) ==
    connections' = [connections EXCEPT ![i] = [unread |-> rest.unread,
                                                taken |-> rest.taken,
                                                replies |-> @.replies \o written,
                                                acceptor |-> @.acceptor]]

\* What a read that returns the first unread message of connection i, whole
\* and alone, leaves on the stream
WholeMessage(i) == [unread |-> Tail(connections[i].unread), taken |-> 0]

\* The acceptor's thread has read the first unread message of connection i and
\* written the answers in written.
Consume(i, written) == Consumed(i, WholeMessage(i), written)

\* An answer written on the stream and nothing else
Answer(op, i, rest, message, write_ok) ==
    /\ ~panicked
    /\ Consumed(i, rest, <<Written(message, write_ok)>>)
    /\ ret' = [op |-> op, ok |-> write_ok, err |-> NoError, block |-> None]
    /\ UNCHANGED <<chain, pending_transactions, difficulty, mining_reward, balances,
                   now, overflow_checks, panicked, seeded>>

\* P2PNode::process_message(message, ...) on connection i, the read that
\* delivered the message having left rest on the stream
dispatch(i, message, rest, write_ok) ==
    /\ UNCHANGED <<heartbeat, listener, file>>
    /\ IF message.kind = "Discovery"
       THEN peers' = insert_peer(peers, message.payload[1], now)
       ELSE UNCHANGED peers
    /\ message.kind = "SyncStatus" => ~panicked
    /\ CASE message.kind = "NewTransaction" ->
                 /\ add_transaction(message.payload[1])
                 /\ Consumed(i, rest, <<>>)
                 /\ UNCHANGED now
            [] message.kind = "NewBlock" ->
                 /\ handle_new_block(message.payload[1])
                 /\ Consumed(i, rest, <<>>)
            [] message.kind = "RequestChain" ->
                 Answer("handle_chain_request", i, rest, handle_chain_request(chain), write_ok)
            [] message.kind = "RequestChainLength" ->
                 Answer("handle_chain_length_request", i, rest,
                        handle_chain_length_request(chain), write_ok)
            [] message.kind = "ResponseChainLength" ->
                 Answer("handle_chain_length_response", i, rest,
                        handle_chain_length_response(chain, message.payload[1]), write_ok)
            [] message.kind = "RequestBlocks" ->
                 \E written \in {handle_blocks_request(chain, message.payload[1],
                                                        message.payload[2])} :
                    IF written = <<>>
                    THEN /\ ~panicked
                         /\ Consumed(i, rest, <<>>)
                         /\ ret' = [op |-> "handle_blocks_request", ok |-> FALSE,
                                    err |-> "invalid_range", block |-> None]
                         /\ UNCHANGED <<chain, pending_transactions, difficulty,
                                        mining_reward, balances, now, overflow_checks,
                                        panicked, seeded>>
                    ELSE Answer("handle_blocks_request", i, rest, written[1], write_ok)
            [] message.kind = "ResponseChain" ->
                 /\ handle_chain_response(message.payload)
                 /\ Consumed(i, rest, <<>>)
            [] message.kind = "ResponseBlocks" ->
                 /\ handle_blocks_response(message.payload)
                 /\ Consumed(i, rest, <<>>)
            [] message.kind \in {"Discovery", "SyncStatus"} ->
                 /\ Consumed(i, rest, <<>>)
                 /\ ret' = [op |-> "process_message", ok |-> TRUE, err |-> NoError,
                            block |-> None]
                 /\ UNCHANGED <<chain, pending_transactions, difficulty, mining_reward,
                                balances, now, overflow_checks, panicked, seeded>>

\* handle_connection / process_message of this node: one message read from
\* connection i and processed under the ledger lock
process_message(i, write_ok) ==
    /\ i \in DOMAIN connections
    /\ connections[i].acceptor = local
    /\ connections[i].unread # <<>>
    /\ connections[i].taken = 0
    /\ dispatch(i, Head(connections[i].unread), WholeMessage(i), write_ok)
    /\ UNCHANGED <<threads, consensus>>

\* handle_connection: read returns 0 on a connection whose dialer is gone, and
\* the thread ends
close_connection(i) ==
    /\ i \in DOMAIN connections
    /\ connections[i].unread = <<>>
    /\ connections' = [k \in 1..(Len(connections) - 1) |->
                          IF k < i THEN connections[k] ELSE connections[k + 1]]
    /\ UNCHANGED <<chain, pending_transactions, difficulty, mining_reward, balances,
                   now, overflow_checks, panicked, seeded, ret, peers, heartbeat, listener, file, held, todo, mined, consensus>>

\* The peer connects and writes one message; listen_for_connections registers
\* the address it dialed from.
peer_sends(message) ==
    /\ listener
    /\ connections' = Append(connections, Dial(local, message))
    /\ peers' = insert_peer(peers, ephemeral, now)
    /\ UNCHANGED <<chain, pending_transactions, difficulty, mining_reward, balances,
                   now, overflow_checks, panicked, seeded, ret, heartbeat, listener, file, held, todo, mined, consensus>>

\* The node with a peer that sends it messages
\* A transfer the peer has accepted into its own pool and broadcasts
PeerTransaction ==
    LET transfer == Transaction_new(system, alice, MaxAmount, chain[1].header.timestamp)
    IN [transfer EXCEPT !.id = Transaction_calculate_hash(transfer)]

PeerMessages ==
    LET block == PeerBlock(chain, now)
        unlinked == PeerBlock(<<block>>, now)
    IN {NewTransaction(PeerTransaction), NewBlock(block), NewBlock(unlinked),
        RequestChain, RequestChainLength}
       \cup {ResponseChainLength(length) : length \in (Len(chain) - 1)..(Len(chain) + 1)}

PeerSends ==
    /\ Len(connections) < MaxConnections
    /\ \E message \in PeerMessages : peer_sends(message)

Receive(kind) ==
    \E i \in DOMAIN connections, write_ok \in BOOLEAN :
        /\ connections[i].unread # <<>>
        /\ Head(connections[i].unread).kind = kind
        /\ process_message(i, write_ok)

ReceiveNewTransaction ==
    /\ Len(pending_transactions) < MaxPool
    /\ Receive("NewTransaction")

ReceiveNewBlock == Receive("NewBlock")

ReceiveRequestChain == Receive("RequestChain")

ReceiveRequestChainLength == Receive("RequestChainLength")

ReceiveResponseChainLength == Receive("ResponseChainLength")

CloseConnection == \E i \in DOMAIN connections : close_connection(i)

AddTransactionNode ==
    /\ Len(pending_transactions) < MaxPool
    /\ submit_transaction(system, alice, MaxAmount)

NextNode ==
    \/ AddTransactionNode
    \/ MinePendingPool
    \/ PeerSends
    \/ ReceiveNewTransaction
    \/ ReceiveNewBlock
    \/ ReceiveRequestChain
    \/ ReceiveRequestChainLength
    \/ ReceiveResponseChainLength
    \/ CloseConnection

SpecNode == Init /\ [][NextNode]_vars

\* Two nodes running the program: this node with its new ledger, and a peer
\* whose chain has one block more on the same genesis block
PeerChain ==
    LET first == <<chain[1]>>
    IN Append(first, PeerBlock(first, chain[1].header.timestamp))

\* Blockchain::get_total_transactions
get_total_transactions(c) == Cardinality(ChainPlaces(c))

\* P2PNode::connect_to_peer(peer_address)
connect_to_peer(reachable) ==
    /\ ~panicked
    /\ IF reachable
       THEN /\ connections' = Append(connections, Dial(remote, Discovery(local)))
            /\ peers' = insert_peer(peers, remote, now)
       ELSE UNCHANGED <<connections, peers>>
    /\ UNCHANGED <<heartbeat, listener, file, held, todo, mined, consensus>>
    /\ ret' = [op |-> "connect_to_peer", ok |-> reachable, err |-> NoError, block |-> None]
    /\ UNCHANGED <<chain, pending_transactions, difficulty, mining_reward, balances,
                   now, overflow_checks, panicked, seeded>>

\* P2PNode::broadcast_sync_status: the connections made by broadcast_message
broadcast_sync_status(reachable) ==
    IF reachable /\ remote \in DOMAIN peers
    THEN <<Dial(remote, SyncStatus(Len(chain), get_latest_block(chain).header.hash,
                                   get_total_transactions(chain)))>>
    ELSE <<>>

\* P2PNode::start_sync_with_peer(peer_address)
start_sync_with_peer(reachable) ==
    /\ ~panicked
    /\ IF reachable
       THEN connections' = Append(connections, Dial(remote, RequestChainLength))
                              \o broadcast_sync_status(reachable)
       ELSE UNCHANGED connections
    /\ ret' = [op |-> "start_sync_with_peer", ok |-> reachable, err |-> NoError,
               block |-> None]
    /\ UNCHANGED <<chain, pending_transactions, difficulty, mining_reward, balances,
                   now, overflow_checks, panicked, seeded, peers, heartbeat, listener, file, held, todo, mined, consensus>>

\* handle_connection / process_message of the peer: one message read from
\* connection i and processed on the peer's ledger
peer_process_message(i, write_ok) ==
    /\ i \in DOMAIN connections
    /\ connections[i].acceptor # local
    /\ connections[i].unread # <<>>
    /\ LET message == Head(connections[i].unread)
       IN CASE message.kind = "RequestChainLength" ->
                 Consume(i, <<Written(handle_chain_length_request(PeerChain), write_ok)>>)
            [] message.kind = "RequestChain" ->
                 Consume(i, <<Written(handle_chain_request(PeerChain), write_ok)>>)
            [] message.kind \in {"Discovery", "SyncStatus", "NewTransaction", "NewBlock"} ->
                 Consume(i, <<>>)
    /\ UNCHANGED <<chain, pending_transactions, difficulty, mining_reward, balances,
                   now, overflow_checks, panicked, seeded, ret, peers, heartbeat, listener, file, held, todo, mined, consensus>>

ConnectToPeer ==
    /\ Len(connections) < MaxSyncConnections
    /\ connect_to_peer(TRUE)

StartSyncWithPeer ==
    /\ Len(connections) + 1 < MaxSyncConnections
    /\ start_sync_with_peer(TRUE)

PeerStartsSync ==
    /\ Len(connections) < MaxSyncConnections
    /\ peer_sends(RequestChainLength)

PeerProcesses == \E i \in DOMAIN connections : peer_process_message(i, TRUE)

LocalProcesses == \E i \in DOMAIN connections : process_message(i, TRUE)

NextSync ==
    \/ ConnectToPeer
    \/ StartSyncWithPeer
    \/ PeerStartsSync
    \/ PeerProcesses
    \/ LocalProcesses
    \/ CloseConnection

SpecSync == Init /\ [][NextSync]_vars

\* Every thread of both nodes that can take a step eventually takes one.
FairSpecSync ==
    /\ SpecSync
    /\ WF_vars(PeerProcesses)
    /\ WF_vars(LocalProcesses)
    /\ WF_vars(CloseConnection)

\* The node with a peer that answers it: chains, block ranges, new blocks and
\* requests for block ranges
BlockRanges(block) ==
    LET tampered == [block EXCEPT !.transactions[1].amount = 2]
        second == PeerBlock(<<block>>, block.header.timestamp)
    IN {<<>>, <<block>>, <<tampered>>, <<second>>, <<block, second>>, <<block, block>>}

InboundMessages(block, unlinked) ==
    {NewBlock(block), NewBlock(unlinked)}
    \cup {ResponseChain(c) : c \in CandidateChains(block, unlinked)}
    \cup {ResponseBlocks(blocks) : blocks \in BlockRanges(block)}
    \cup {RequestBlocks(start, end) : start \in 0..MaxChain, end \in 0..MaxChain}

PeerSendsInbound ==
    /\ Len(connections) < MaxConnections
    /\ Len(chain) < MaxChain
    /\ \E block \in {PeerBlock(chain, now)} :
          \E unlinked \in {PeerBlock(<<block>>, now)} :
            \E message \in InboundMessages(block, unlinked) : peer_sends(message)

ReceiveRequestBlocks == Receive("RequestBlocks")

ReceiveResponseChain == Receive("ResponseChain")

ReceiveResponseBlocks == Receive("ResponseBlocks")

NextInbound ==
    \/ MinePendingPool
    \/ PeerSendsInbound
    \/ ReceiveNewBlock
    \/ ReceiveRequestBlocks
    \/ ReceiveResponseChain
    \/ ReceiveResponseBlocks
    \/ CloseConnection

SpecInbound == Init /\ [][NextInbound]_vars

----------------------------------------------------------------------------
(* Broadcasts *)

\* The orders in which peers.iter() can go through the registered addresses
Orders(addresses) ==
    {order \in [1..Cardinality(addresses) -> addresses] :
        \A a \in addresses : \E k \in DOMAIN order : order[k] = a}

\* The addresses of order where send_to_peer returns Ok, in the same order
RECURSIVE sent_to(_, _)
sent_to(order, reachable) ==
    IF order = <<>> THEN <<>>
    ELSE (IF Head(order) \in reachable THEN <<Head(order)>> ELSE <<>>)
         \o sent_to(Tail(order), reachable)

\* broadcast_message giving up at the first send that fails
RECURSIVE until_failure(_, _)
until_failure(order, reachable) ==
    IF order = <<>> THEN <<>>
    ELSE IF Head(order) \notin reachable THEN <<Head(order)>>
    ELSE <<Head(order)>> \o until_failure(Tail(order), reachable)

\* The calls of send_to_peer made by broadcast_message
attempts(order, reachable) == order

\* P2PNode::broadcast_message(message): peers.iter() yields the addresses in
\* order, TcpStream::connect and write_all succeed for those in reachable
broadcast_message(message, order, reachable) ==
    /\ ~panicked
    /\ \E attempted \in {attempts(order, reachable)} :
          /\ connections' = connections
                 \o [k \in DOMAIN sent_to(attempted, reachable) |->
                        Dial(sent_to(attempted, reachable)[k], message)]
          /\ ret' = [op |-> "broadcast_message", ok |-> attempted = order, err |-> NoError,
                     block |-> None,
                     sends |-> [k \in DOMAIN attempted |->
                                  [peer |-> attempted[k], ok |-> attempted[k] \in reachable]]]
    /\ UNCHANGED <<chain, pending_transactions, difficulty, mining_reward, balances,
                   now, overflow_checks, panicked, seeded, peers, heartbeat, listener, file>>

\* P2PNode::broadcast_transaction(transaction)
broadcast_transaction(transaction, order, reachable) ==
    /\ broadcast_message(NewTransaction(transaction), order, reachable)
    /\ UNCHANGED <<threads, consensus>>

\* P2PNode::broadcast_block(block)
broadcast_block(block, order, reachable) ==
    /\ broadcast_message(NewBlock(block), order, reachable)
    /\ UNCHANGED <<threads, consensus>>

\* The addresses where a node listens
Listening == {remote, other}

PeerAnnounces ==
    /\ Len(connections) < MaxBroadcastConnections
    /\ peer_sends(Discovery(other))

ConnectToPeerBroadcast ==
    /\ Len(connections) < MaxBroadcastConnections
    /\ connect_to_peer(TRUE)

BroadcastTransaction ==
    /\ Len(connections) + Cardinality(DOMAIN peers) <= MaxBroadcastConnections
    /\ \E order \in Orders(DOMAIN peers), reachable \in SUBSET Listening :
          broadcast_transaction(Transaction_new(system, alice, MaxAmount, now),
                                order, reachable)

BroadcastBlock ==
    /\ Len(connections) + Cardinality(DOMAIN peers) <= MaxBroadcastConnections
    /\ \E order \in Orders(DOMAIN peers), reachable \in SUBSET Listening :
          broadcast_block(get_latest_block(chain), order, reachable)

NextBroadcast ==
    \/ PeerAnnounces
    \/ ConnectToPeerBroadcast
    \/ BroadcastTransaction
    \/ BroadcastBlock
    \/ PeerProcesses
    \/ LocalProcesses
    \/ CloseConnection

SpecBroadcast == Init /\ [][NextBroadcast]_vars

----------------------------------------------------------------------------
(* The heartbeat *)

\* heartbeat_loop removing a peer from the timeout on
evicted_from_timeout(registry, t) == {a \in DOMAIN registry : t - registry[a] >= PeerTimeout}

\* heartbeat_loop: to_remove, the addresses with last_seen.elapsed() > 60 s
to_remove(registry, t) == {a \in DOMAIN registry : t - registry[a] > PeerTimeout}

\* heartbeat_loop: one turn of the loop, the sleep having ended
heartbeat_loop ==
    /\ now >= heartbeat
    /\ peers' = [a \in DOMAIN peers \ to_remove(peers, now) |-> peers[a]]
    /\ heartbeat' = now + HeartbeatSleep
    /\ UNCHANGED <<chain, pending_transactions, difficulty, mining_reward, balances,
                   now, overflow_checks, panicked, seeded, ret, connections, listener, file>>

\* A second passes. thread::sleep returns after at least the time asked for,
\* and the thread then waits for the processor and for the lock of the
\* registry: MaxLateness seconds at most in this model.
Tick ==
    /\ now < MaxHeartbeatTime
    /\ now < heartbeat + MaxLateness
    /\ now' = now + 1
    /\ UNCHANGED <<chain, pending_transactions, difficulty, mining_reward, balances,
                   overflow_checks, panicked, seeded, ret, connections, peers, heartbeat, listener, file, held, todo, mined, consensus>>

PeerAnnouncesEarly ==
    /\ now <= MaxSeenTime
    /\ Len(connections) < MaxConnections
    /\ peer_sends(Discovery(other))

LocalProcessesEarly ==
    /\ now <= MaxSeenTime
    /\ LocalProcesses

HeartbeatLoop == heartbeat_loop /\ UNCHANGED <<threads, consensus>>

NextHeartbeat ==
    \/ PeerAnnouncesEarly
    \/ LocalProcessesEarly
    \/ CloseConnection
    \/ Tick
    \/ HeartbeatLoop

SpecHeartbeat == Init /\ [][NextHeartbeat]_vars

----------------------------------------------------------------------------
(* The byte stream of a connection *)

\* bincode::serialize, by the number of bytes it writes: a String is a u64
\* length and its bytes, an Option one byte and its value, a Vec a u64 length
\* and its elements, an enum a u32 variant index and its fields.
size_of_string(str) == 8 + Len(str)

size_of_option(str) == IF str = None THEN 1 ELSE 1 + size_of_string(str)

size_of_transaction(tx) ==
    size_of_string(tx.id) + size_of_string(tx.sender) + size_of_string(tx.receiver)
    + 8 + (8 + DateTimeLen) + size_of_option(tx.signature) + size_of_option(tx.public_key)

RECURSIVE size_of_transactions(_)
size_of_transactions(transactions) ==
    IF transactions = <<>> THEN 0
    ELSE size_of_transaction(Head(transactions)) + size_of_transactions(Tail(transactions))

size_of_block(block) ==
    (8 + DateTimeLen) + size_of_string(block.header.prev_hash)
    + size_of_string(block.header.hash) + 8 + 4 + size_of_option(block.header.validator)
    + 8 + size_of_transactions(block.transactions) + 8

RECURSIVE size_of_blocks(_)
size_of_blocks(blocks) ==
    IF blocks = <<>> THEN 0
    ELSE size_of_block(Head(blocks)) + size_of_blocks(Tail(blocks))

serialized_size(message) ==
    4 + CASE message.kind = "NewTransaction" -> size_of_transaction(message.payload[1])
          [] message.kind = "NewBlock" -> size_of_block(message.payload[1])
          [] message.kind \in {"RequestChain", "RequestChainLength"} -> 0
          [] message.kind \in {"ResponseChain", "ResponseBlocks"} ->
                8 + size_of_blocks(message.payload)
          [] message.kind = "ResponseChainLength" -> 8
          [] message.kind = "RequestBlocks" -> 16
          [] message.kind = "Discovery" -> 4 + 4 + 2
          [] message.kind = "SyncStatus" -> 8 + size_of_string(message.payload[2]) + 8

RECURSIVE size_of_messages(_)
size_of_messages(messages) ==
    IF messages = <<>> THEN 0
    ELSE serialized_size(Head(messages)) + size_of_messages(Tail(messages))

\* The bytes of connection i written and not yet read
available(i) == size_of_messages(connections[i].unread) - connections[i].taken

RECURSIVE after_read(_, _, _)
\* What is left on a stream of the messages unread, the first without its
\* first taken bytes, once a read has returned size bytes
after_read(unread, taken, size) ==
    IF unread = <<>> THEN [unread |-> <<>>, taken |-> 0]
    ELSE LET left == serialized_size(Head(unread)) - taken
         IN IF size >= left THEN after_read(Tail(unread), 0, size - left)
            ELSE [unread |-> unread, taken |-> taken + size]

\* bincode::deserialize::<Message>(&buffer[..size]) returns Ok: the bytes start
\* with a whole message (bytes after it are ignored)
deserialize_ok(i, size) ==
    /\ connections[i].taken = 0
    /\ size >= serialized_size(Head(connections[i].unread))

\* handle_connection: one turn of the loop on connection i, stream.read
\* returning size bytes
handle_connection(i, size, write_ok) ==
    /\ i \in DOMAIN connections
    /\ connections[i].acceptor = local
    /\ connections[i].unread # <<>>
    /\ size >= 1
    /\ size <= ReadBufferSize
    /\ size <= available(i)
    /\ UNCHANGED <<threads, consensus>>
    /\ \E rest \in {after_read(connections[i].unread, connections[i].taken, size)} :
          IF deserialize_ok(i, size)
          THEN dispatch(i, Head(connections[i].unread), rest, write_ok)
          ELSE /\ Consumed(i, rest, <<>>)
               /\ ret' = [op |-> "handle_connection", ok |-> FALSE, err |-> "deserialize",
                          block |-> None]
               /\ UNCHANGED <<chain, pending_transactions, difficulty, mining_reward,
                              balances, now, overflow_checks, panicked, seeded, peers, heartbeat, listener, file>>

\* The peer writes one more message on connection i, which it has kept open.
peer_writes(i, message) ==
    /\ i \in DOMAIN connections
    /\ connections[i].acceptor = local
    /\ connections' = [connections EXCEPT ![i].unread = Append(@, message)]
    /\ UNCHANGED <<chain, pending_transactions, difficulty, mining_reward, balances,
                   now, overflow_checks, panicked, seeded, ret, peers, heartbeat, listener, file, held, todo, mined, consensus>>

\* The node with a peer whose bytes arrive as TCP delivers them
LongChain == [k \in 1..OversizeBlocks |-> chain[1]]

StreamMessages ==
    {RequestChainLength, ResponseChainLength(Len(chain)), ResponseChain(LongChain)}

\* The sizes stream.read returns: the first message short of a byte, whole,
\* and with a byte of the next, everything there is, and a full buffer
ReadSizes(i) ==
    LET left == serialized_size(Head(connections[i].unread)) - connections[i].taken
    IN {left - 1, left, left + 1, available(i), ReadBufferSize}

PeerDials ==
    /\ Len(connections) < MaxConnections
    /\ \E message \in StreamMessages : peer_sends(message)

\* The peer writes again while no message is partly read (a bound of the
\* model: it keeps the offsets into the stream few).
PeerWrites ==
    \E i \in DOMAIN connections :
        /\ Len(connections[i].unread) < MaxUnread
        /\ connections[i].taken = 0
        /\ Len(connections[i].replies) < MaxReplies
        /\ \E message \in StreamMessages : peer_writes(i, message)

HandleConnection ==
    \E i \in DOMAIN connections :
        /\ connections[i].unread # <<>>
        /\ \E size \in ReadSizes(i) : handle_connection(i, size, TRUE)

NextStream == PeerDials \/ PeerWrites \/ HandleConnection \/ CloseConnection

SpecStream == Init /\ [][NextStream]_vars

----------------------------------------------------------------------------
(* Faults of a connection *)

\* listen_for_connections with a connection its peer has already reset:
\* stream.peer_addr() returns Ok, and the connection is handled as any other
\* (its first read fails), or it returns Err, unwrap() panics and the thread
\* of the listener ends.
accept_reset_connection(peer_addr_ok) ==
    /\ listener
    /\ IF peer_addr_ok
       THEN /\ connections' = Append(connections, [acceptor |-> local, unread |-> <<>>,
                                                    taken |-> 0, replies |-> <<>>])
            /\ peers' = insert_peer(peers, ephemeral, now)
            /\ UNCHANGED listener
       ELSE /\ listener' = FALSE
            /\ UNCHANGED <<connections, peers>>
    /\ UNCHANGED <<chain, pending_transactions, difficulty, mining_reward, balances,
                   now, overflow_checks, panicked, seeded, ret, heartbeat, file, held, todo, mined, consensus>>

FaultMessages == {RequestChainLength, NewTransaction(PeerTransaction)}

PeerDialsFaults ==
    /\ Len(connections) < MaxFaultConnections
    /\ Len(pending_transactions) < MaxPool
    /\ \E message \in FaultMessages : peer_sends(message)

AcceptResetConnection ==
    /\ Len(connections) < MaxFaultConnections
    /\ \E peer_addr_ok \in BOOLEAN : accept_reset_connection(peer_addr_ok)

NextFaults == PeerDialsFaults \/ AcceptResetConnection \/ HandleConnection \/ CloseConnection

SpecFaults == Init /\ [][NextFaults]_vars

----------------------------------------------------------------------------
(* Properties of add_transaction *)

\* The three grounds on which add_transaction turns a transaction away
Rejectable(sender, receiver, amount) ==
    \/ sender = receiver
    \/ amount = 0
    \/ U64Less(get_balance(balances, sender), amount)

\* C1: add_transaction returns an error and leaves chain, pending queue,
\* balances, difficulty and reward unchanged whenever sender equals receiver,
\* or the amount is 0, or the sender's stored balance is less than the amount.
C1_RejectionChangesNothing ==
    [][\A sender \in Addresses, receiver \in Addresses, amount \in Amounts :
          (submit_transaction(sender, receiver, amount)
           /\ Rejectable(sender, receiver, amount))
          => (~ret'.ok /\ ledger' = ledger)]_vars

\* A transaction has been turned away.
C1_Witness == ret.op = "add_transaction" /\ ~ret.ok

\* C2: for a transaction with sender # receiver, amount > 0 and a stored sender
\* balance >= amount, add_transaction succeeds, appends exactly one entry at
\* the tail of the pending queue, whose id is the hash of the transaction as
\* submitted, and changes nothing else in the ledger.
C2_AcceptedTransactionAppended ==
    [][\A sender \in Addresses, receiver \in Addresses, amount \in Amounts :
          (submit_transaction(sender, receiver, amount)
           /\ ~Rejectable(sender, receiver, amount))
          => LET t == Transaction_new(sender, receiver, amount, now)
             IN /\ ret'.ok
                /\ pending_transactions' =
                       pending_transactions
                       \o <<[t EXCEPT !.id = Transaction_calculate_hash(t)]>>
                /\ <<chain, difficulty, mining_reward, balances>>'
                       = <<chain, difficulty, mining_reward, balances>>]_vars

\* A transaction was accepted behind a different one that was already queued.
C2_Witness ==
    /\ ret.op = "add_transaction"
    /\ ret.ok
    /\ Len(pending_transactions) = 2
    /\ pending_transactions[1] # pending_transactions[2]

\* C3, as claimed: the id of every transaction stored in the pending pool
\* equals hash() evaluated on that stored transaction.
C3_StoredIdIsHashOfStored ==
    \A i \in DOMAIN pending_transactions :
        pending_transactions[i].id = Transaction_calculate_hash(pending_transactions[i])

\* C3, amended: the id of a transaction stored by add_transaction equals hash()
\* evaluated on the transaction as it was submitted, before its id was
\* overwritten.
C3_StoredIdIsHashOfSubmitted ==
    [][\A sender \in Addresses, receiver \in Addresses, amount \in Amounts :
          (submit_transaction(sender, receiver, amount) /\ ret'.ok)
          => LET t == Transaction_new(sender, receiver, amount, now)
                 stored == pending_transactions'[Len(pending_transactions')]
             IN /\ Len(pending_transactions') = Len(pending_transactions) + 1
                /\ stored.id = Transaction_calculate_hash(t)
                /\ [stored EXCEPT !.id = t.id] = t]_vars

\* A transaction is in the pool after add_transaction accepted it.
C3_Witness ==
    /\ ret.op = "add_transaction"
    /\ ret.ok
    /\ pending_transactions # <<>>

----------------------------------------------------------------------------
(* Properties of mine_pending_transactions *)

\* C4: when the pending queue is not empty, mine_pending_transactions(miner)
\* appends exactly one block to the chain, at the height of the previous chain
\* length, linked to the previous tip, holding the pending queue in its order
\* followed by one reward transaction (system -> miner, the mining reward);
\* afterwards the pending queue is empty and the block returned is the new tip.
C4_MiningAppendsOneBlock ==
    [][\A miner_address \in Addresses, d \in TimeSteps :
          (mine_pending_transactions(miner_address, d) /\ pending_transactions # <<>>)
          => /\ Len(chain') = Len(chain) + 1
             /\ SubSeq(chain', 1, Len(chain)) = chain
             /\ LET tip == chain'[Len(chain')]
                    n == Len(pending_transactions)
                IN /\ tip.height = Len(chain)
                   /\ tip.header.prev_hash = get_latest_block(chain).header.hash
                   /\ Len(tip.transactions) = n + 1
                   /\ SubSeq(tip.transactions, 1, n) = pending_transactions
                   /\ tip.transactions[n + 1].sender = system
                   /\ tip.transactions[n + 1].receiver = miner_address
                   /\ tip.transactions[n + 1].amount = mining_reward
                   /\ pending_transactions' = <<>>
                   /\ ret'.ok
                   /\ ret'.block = <<tip>>]_vars

\* C5: mine_pending_transactions on a ledger with an empty pending queue
\* returns an error and leaves chain, balances, difficulty and pending queue
\* unchanged.
C5_NothingToMine ==
    [][\A miner_address \in Addresses, d \in TimeSteps :
          (mine_pending_transactions(miner_address, d) /\ pending_transactions = <<>>)
          => (~ret'.ok /\ ledger' = ledger)]_vars

\* Mining was asked for with nothing pending.
C5_Witness ==
    /\ ret.op = "mine_pending_transactions"
    /\ ~ret.ok
    /\ ret.err = "no_pending"
    /\ pending_transactions = <<>>

\* C6: on a ledger changed only by add_transaction and
\* mine_pending_transactions, is_chain_valid() is true and every block of the
\* chain has a hash with at least as many leading zeros as the difficulty of
\* its header.
C6_ChainValidAndHashesMeetDifficulty ==
    /\ is_chain_valid(chain)
    /\ \A i \in DOMAIN chain : Block_is_valid_hash(chain[i])

\* Every transaction of the chain applied once, in chain order, to the table
\* bal (in unbounded arithmetic on the representatives)
replay_once(bal, c) == update_balances(bal, c, FALSE).balances

\* C7: after successful add_transaction and mine_pending_transactions calls the
\* balance table equals the balances seeded before the first block, adjusted
\* by every transaction of the chain applied exactly once in chain order.
C7_BalancesAreOneReplay ==
    ~panicked => balances = replay_once(seeded, chain)

\* C8: recomputing the balances twice on an unchanged chain gives the same
\* table as recomputing them once.
C8_RecomputationIdempotent ==
    LET once == update_balances(balances, chain, overflow_checks)
        twice == update_balances(once.balances, chain, overflow_checks)
    IN (~once.panicked /\ ~twice.panicked) => twice.balances = once.balances

----------------------------------------------------------------------------
(* The scenario of one transfer *)

\* A new ledger on which a balance was written for the sender of the one
\* pending transaction
OneTransferPending ==
    /\ Len(chain) = 1
    /\ Len(pending_transactions) = 1
    /\ balances = seeded
    /\ LET sender == pending_transactions[1].sender
       IN /\ sender \in DOMAIN seeded
          /\ seeded[sender] # get_balance(InitialBalances, sender)

\* What the scenario promises for the step that mines the transfer
TransferSettled(miner_address) ==
    LET t == pending_transactions[1]
    IN /\ Len(chain') = 2
       /\ get_balance(balances', t.receiver) = get_balance(balances, t.receiver) + t.amount
       /\ get_balance(balances', t.sender) = get_balance(balances, t.sender) - t.amount
       /\ get_balance(balances', miner_address) = mining_reward
       /\ pending_transactions' = <<>>

\* C9, as claimed: on a genesis-only ledger, after a transfer of a <= the
\* sender's balance was accepted and mined by a miner M distinct from sender
\* and receiver, the chain has 2 blocks, the receiver has a more, the sender a
\* less, M has the mining reward and the pending queue is empty.
C9_TransferScenario ==
    [][\A miner_address \in Addresses, d \in TimeSteps :
          (/\ mine_pending_transactions(miner_address, d)
           /\ OneTransferPending
           /\ miner_address \notin {pending_transactions[1].sender,
                                    pending_transactions[1].receiver})
          => TransferSettled(miner_address)]_vars

\* C9, amended: the same, for a sender other than "system", a receiver other
\* than "genesis" and a miner that is neither "system" nor "genesis".
C9_TransferScenarioOrdinaryAddresses ==
    [][\A miner_address \in Addresses, d \in TimeSteps :
          (/\ mine_pending_transactions(miner_address, d)
           /\ OneTransferPending
           /\ miner_address \notin {pending_transactions[1].sender,
                                    pending_transactions[1].receiver}
           /\ pending_transactions[1].sender # system
           /\ pending_transactions[1].receiver # genesis
           /\ miner_address \notin {system, genesis})
          => TransferSettled(miner_address)]_vars

\* The transfer of a seeded sender was mined into the second block by a third,
\* ordinary address.
C9_Witness ==
    /\ ret.op = "mine_pending_transactions"
    /\ ret.ok
    /\ Len(chain) = 2
    /\ LET t == chain[2].transactions[1]
           miner_address == chain[2].transactions[2].receiver
       IN /\ t.sender \in (DOMAIN seeded) \ {system}
          /\ seeded[t.sender] # get_balance(InitialBalances, t.sender)
          /\ t.receiver # genesis
          /\ miner_address \notin {system, genesis, t.sender, t.receiver}
          /\ get_balance(balances, miner_address) = mining_reward

----------------------------------------------------------------------------
(* Properties of replace_chain *)

\* C10: replace_chain(candidate) with a candidate no longer than the current
\* chain returns false and leaves chain, balances, difficulty and pending queue
\* unchanged.
C10_NotLongerChainRejected ==
    [][ret'.op = "replace_chain" =>
         \A block \in {PeerBlock(chain, now)} :
         \A new_chain \in {SubSeq(chain, 1, k) : k \in 0..Len(chain)} \cup {<<block>>} :
             (replace_chain(new_chain) /\ Len(new_chain) <= Len(chain))
             => (~ret'.ok /\ ledger' = ledger)]_vars

\* replace_chain was called with a chain no longer than the current one, on a
\* ledger that had mined a block.
C10_Witness ==
    /\ ret.op = "replace_chain"
    /\ ~ret.ok
    /\ Len(chain) > 1

SomeBlockFailsValidation(c) ==
    \E i \in 2..Len(c) :
        \/ c[i].header.prev_hash # c[i - 1].header.hash
        \/ c[i].header.hash # Block_calculate_hash(c[i])
        \/ c[i].header.hash
               # Repeat(Ch0, c[i].header.difficulty)
                   \o SubSeq(c[i].header.hash, c[i].header.difficulty + 1,
                             Len(c[i].header.hash))

\* C12: replace_chain with a longer candidate in which some block fails
\* validation returns false and leaves chain, balances, difficulty and pending
\* queue as they were.
C12_InvalidChainRejected ==
    [][ret'.op = "replace_chain" =>
         \A block \in {PeerBlock(chain, now)} :
         \A unlinked \in {PeerBlock(<<block>>, now)} :
         \A new_chain \in CandidateChains(block, unlinked) :
             (/\ replace_chain(new_chain)
              /\ Len(new_chain) > Len(chain)
              /\ SomeBlockFailsValidation(new_chain))
             => (~ret'.ok /\ ledger' = ledger)]_vars

\* A longer chain with an invalid block was turned away by a ledger that had
\* mined a block.
C12_Witness ==
    /\ ret.op = "replace_chain"
    /\ ~ret.ok
    /\ ret.err = "invalid"
    /\ Len(chain) > 1

----------------------------------------------------------------------------
(* Properties of the difficulty *)

\* C13: on a ledger created with a difficulty in [1, 20] the difficulty is
\* within [1, 20] in every reachable state, whatever blocks are mined and
\* whatever chains replace the chain.
C13_DifficultyInRange == difficulty \in MinDifficulty..MaxDifficulty

\* A block mined at the highest difficulty in less than the target time, or at
\* the lowest in more than twice the target time, was appended.
C13_Witness ==
    /\ Len(chain) > 1
    /\ ret.ok
    /\ LET last == chain[Len(chain)].header
           time_diff == last.timestamp - chain[Len(chain) - 1].header.timestamp
       IN \/ last.difficulty = MaxDifficulty /\ time_diff < TargetTime
          \/ last.difficulty = MinDifficulty /\ time_diff > 2 * TargetTime

\* C14: adjust_difficulty compares the difference d between the timestamps of
\* the two most recent blocks with the 10 second target: for d < 10 the
\* difficulty becomes min(difficulty + 1, 20), for d > 20 it becomes
\* max(difficulty - 1, 1), and for 10 <= d <= 20 it is unchanged.
C14_DifficultyRetargeted ==
    [][(chain' # chain /\ ret'.ok /\ Len(chain') >= 2)
         => LET d == chain'[Len(chain')].header.timestamp
                        - chain'[Len(chain') - 1].header.timestamp
                raised == IF difficulty + 1 <= MaxDifficulty
                          THEN difficulty + 1 ELSE MaxDifficulty
                lowered == IF difficulty - 1 >= MinDifficulty
                           THEN difficulty - 1 ELSE MinDifficulty
            IN /\ d < TargetTime => difficulty' = raised
               /\ d > 2 * TargetTime => difficulty' = lowered
               /\ (TargetTime <= d /\ d <= 2 * TargetTime) => difficulty' = difficulty]_vars

\* A block was appended exactly twice the target time after its predecessor.
C14_Witness ==
    /\ Len(chain) > 1
    /\ ret.ok
    /\ chain[Len(chain)].header.timestamp - chain[Len(chain) - 1].header.timestamp
           = 2 * TargetTime

\* C15: mining the first block after genesis does not change the difficulty.
C15_FirstBlockKeepsDifficulty ==
    [][\A miner_address \in Addresses, d \in TimeSteps :
          (/\ mine_pending_transactions(miner_address, d)
           /\ Len(chain) = 1
           /\ Len(chain') = 2)
          => difficulty' = difficulty]_vars

----------------------------------------------------------------------------
(* Properties of the transactions of the chain *)

\* The transaction went through add_transaction: its id is a digest, not the
\* "tx_<seconds>" that Transaction::new gives.
WasAccepted(transaction) == ~StartsWith(transaction.id, tx_prefix)

\* C16: no transaction accepted into the pending pool is in two blocks of the
\* chain or twice in one block.
C16_AcceptedTransactionOnce ==
    \A p \in ChainPlaces(chain), q \in ChainPlaces(chain) :
        (p # q /\ WasAccepted(chain[p[1]].transactions[p[2]]))
        => chain[p[1]].transactions[p[2]] # chain[q[1]].transactions[q[2]]

\* The transactions of the pending pool and of the blocks of the chain
StoredTransactions ==
    {pending_transactions[i] : i \in DOMAIN pending_transactions}
    \cup {chain[p[1]].transactions[p[2]] : p \in ChainPlaces(chain)}

\* C17: every transaction in the pending pool or in a block of the chain that
\* carries a signature verifies against its public key over the message hash
\* of its fields as they are stored.
C17_StoredSignaturesVerify ==
    \A transaction \in StoredTransactions :
        transaction.signature # None => Transaction_verify_signature(transaction)

----------------------------------------------------------------------------
(* Properties of the synchronisation *)

\* C18: when this node starts a synchronisation with a reachable peer whose
\* chain is strictly longer and valid, and no send fails, the exchange
\* RequestChainLength, ResponseChainLength, RequestChain, ResponseChain
\* completes and the chain of this node becomes the chain of the peer.
C18_SyncCompletes ==
    (ret.op = "start_sync_with_peer" /\ ret.ok) ~> (chain = PeerChain)

\* C19: when this node reads ResponseChainLength(remote) from a connection, it
\* writes exactly one message on that connection and leaves the ledger and the
\* other connections as they were: RequestChain when remote is greater than the
\* local length, ResponseChain with the whole local chain when it is smaller,
\* RequestBlocks from remote - 1 to remote - 1 when they are equal.
C19_LengthResponseAnswered ==
    [][\A i \in DOMAIN connections, write_ok \in BOOLEAN :
          (/\ connections[i].acceptor = local
           /\ connections[i].unread # <<>>
           /\ Head(connections[i].unread).kind = "ResponseChainLength"
           /\ process_message(i, write_ok))
          => LET remote_length == Head(connections[i].unread).payload[1]
                 local_length == Len(chain)
                 before == connections[i].replies
                 after == connections'[i].replies
             IN /\ UNCHANGED ledger
                /\ DOMAIN connections' = DOMAIN connections
                /\ \A k \in DOMAIN connections \ {i} : connections'[k] = connections[k]
                /\ Len(after) = Len(before) + 1
                /\ SubSeq(after, 1, Len(before)) = before
                /\ after[Len(after)].ok = write_ok
                /\ remote_length > local_length
                      => after[Len(after)].message = RequestChain
                /\ remote_length < local_length
                      => after[Len(after)].message = ResponseChain(chain)
                /\ remote_length = local_length
                      => after[Len(after)].message
                            = RequestBlocks(remote_length - 1, remote_length - 1)
      ]_vars

\* A ResponseChainLength equal to the local length was answered with RequestBlocks.
C19_Witness ==
    /\ ret.op = "handle_chain_length_response"
    /\ \E i \in DOMAIN connections :
          /\ connections[i].replies # <<>>
          /\ connections[i].replies[1].message
                = RequestBlocks(Len(chain) - 1, Len(chain) - 1)

\* C20: a NewBlock read from a connection whose prev_hash is not the hash of the
\* latest local block leaves chain, pending_transactions, difficulty,
\* mining_reward and balances as they were, and a NewBlock that changes the
\* chain has the hash of the latest local block as its prev_hash.
C20_UnlinkedBlockIgnored ==
    [][\A i \in DOMAIN connections, write_ok \in BOOLEAN :
          (/\ connections[i].acceptor = local
           /\ connections[i].unread # <<>>
           /\ Head(connections[i].unread).kind = "NewBlock"
           /\ process_message(i, write_ok))
          => LET block == Head(connections[i].unread).payload[1]
                 linked == block.header.prev_hash = get_latest_block(chain).header.hash
             IN /\ ~linked => UNCHANGED ledger
                /\ chain' # chain => linked
      ]_vars

\* handle_new_block has returned at the check of prev_hash.
C20_Witness ==
    /\ ret.op = "handle_new_block"
    /\ ret.err = "not_linked"
    /\ \E i \in DOMAIN connections : connections[i].unread = <<>>

----------------------------------------------------------------------------
(* Properties of the inbound messages *)

\* C21: a ResponseChain read from a connection replaces the local chain only by
\* the chain it carries, and only when that chain is strictly longer than the
\* local one and each of its blocks after the first has the hash of its
\* predecessor as prev_hash, its recomputed hash as hash and a hash meeting its
\* own difficulty; an empty, invalid or not longer chain leaves the ledger as
\* it was.
C21_ChainResponseAdoption ==
    [][\A i \in DOMAIN connections, write_ok \in BOOLEAN :
          (/\ connections[i].acceptor = local
           /\ connections[i].unread # <<>>
           /\ Head(connections[i].unread).kind = "ResponseChain"
           /\ process_message(i, write_ok))
          => LET candidate == Head(connections[i].unread).payload
                 longer == Len(candidate) > Len(chain)
                 valid == \A k \in 2..Len(candidate) :
                             /\ candidate[k].header.prev_hash = candidate[k - 1].header.hash
                             /\ candidate[k].header.hash = Block_calculate_hash(candidate[k])
                             /\ Block_is_valid_hash(candidate[k])
             IN /\ chain' # chain => chain' = candidate /\ longer /\ valid
                /\ (candidate = <<>> \/ ~valid \/ ~longer) => UNCHANGED ledger
      ]_vars

\* A chain received in a ResponseChain has replaced the local chain.
C21_Witness ==
    /\ ret.op = "replace_chain"
    /\ ret.ok
    /\ \E i \in DOMAIN connections :
          connections[i].acceptor = local /\ connections[i].unread = <<>>

\* C22: a NewBlock, ResponseChain or ResponseBlocks read from a connection by a
\* node whose chain passes is_chain_valid leaves it with a chain that passes
\* is_chain_valid.
C22_InboundKeepsChainValid ==
    [][(/\ is_chain_valid(chain)
        /\ (ReceiveNewBlock \/ ReceiveResponseChain \/ ReceiveResponseBlocks))
       => is_chain_valid(chain')]_vars

\* C23: a RequestBlocks from start to end read from a connection is answered
\* with nothing when start is not below the chain length or end is below
\* start, and otherwise with one ResponseBlocks holding the blocks at the
\* indices start to min(end, length - 1) in the order of the chain; the ledger
\* is as it was in both cases.
C23_BlocksRequestAnswered ==
    [][\A i \in DOMAIN connections, write_ok \in BOOLEAN :
          (/\ connections[i].acceptor = local
           /\ connections[i].unread # <<>>
           /\ Head(connections[i].unread).kind = "RequestBlocks"
           /\ process_message(i, write_ok))
          => LET start == Head(connections[i].unread).payload[1]
                 end == Head(connections[i].unread).payload[2]
                 length == Len(chain)
                 last == IF end < length - 1 THEN end ELSE length - 1
                 before == connections[i].replies
                 after == connections'[i].replies
             IN /\ UNCHANGED ledger
                /\ (start >= length \/ end < start) => after = before
                /\ ~(start >= length \/ end < start)
                      => /\ Len(after) = Len(before) + 1
                         /\ SubSeq(after, 1, Len(before)) = before
                         /\ after[Len(after)].message
                               = ResponseBlocks([k \in 1..(last - start + 1)
                                                   |-> chain[start + k]])
      ]_vars

\* A range reaching past the end of a chain of several blocks was answered
\* with the blocks up to the last one.
C23_Witness ==
    /\ ret.op = "handle_blocks_request"
    /\ Len(chain) > 1
    /\ \E i \in DOMAIN connections :
          /\ connections[i].replies # <<>>
          /\ connections[i].replies[1].message = ResponseBlocks(SubSeq(chain, 2, Len(chain)))

----------------------------------------------------------------------------
(* Properties of the byte stream *)

\* C24: whatever the number of bytes a read of a connection returns and
\* whatever the size of the messages, each turn of handle_connection decodes
\* exactly the first message written and not yet decoded and leaves the stream
\* at the start of the next one, so that every message written is decoded
\* once, whole and in order.
C24_MessagesFramed ==
    [][HandleConnection
         => /\ ret'.op # "handle_connection"
            /\ \A i \in DOMAIN connections :
                  connections'[i] # connections[i]
                     => /\ connections[i].taken = 0
                        /\ connections'[i].unread = Tail(connections[i].unread)
                        /\ connections'[i].taken = 0
      ]_vars

----------------------------------------------------------------------------
(* Properties of the registry of peers *)

\* C25: broadcast_transaction and broadcast_block call send_to_peer exactly
\* once for each peer registered when they are called, whether or not the
\* sends to other peers fail, and return Ok; each send that succeeds leaves one
\* connection carrying the message, and the ledger and the registry are as
\* they were.
C25_BroadcastReachesEveryPeer ==
    [][(BroadcastTransaction \/ BroadcastBlock)
         => /\ ret'.op = "broadcast_message"
            /\ ret'.ok
            /\ \A p \in DOMAIN peers :
                  Cardinality({k \in DOMAIN ret'.sends : ret'.sends[k].peer = p}) = 1
            /\ \A k \in DOMAIN ret'.sends : ret'.sends[k].peer \in DOMAIN peers
            /\ Len(connections')
                  = Len(connections)
                    + Cardinality({k \in DOMAIN ret'.sends : ret'.sends[k].ok})
            /\ \A k \in DOMAIN ret'.sends :
                  ret'.sends[k].ok
                     => \E j \in (Len(connections) + 1)..Len(connections') :
                           /\ connections'[j].acceptor = ret'.sends[k].peer
                           /\ Len(connections'[j].unread) = 1
                           /\ connections'[j].unread[1].kind \in {"NewTransaction", "NewBlock"}
            /\ SubSeq(connections', 1, Len(connections)) = connections
            /\ UNCHANGED <<ledger, peers>>
      ]_vars

\* A broadcast to three registered peers in which the first send failed and a
\* later one succeeded
C25_Witness ==
    /\ ret.op = "broadcast_message"
    /\ Len(ret.sends) = 3
    /\ ~ret.sends[1].ok
    /\ ret.sends[3].ok

\* The sweep of heartbeat_loop removes the peers last seen more than 60
\* seconds before it and no other.
SweepRemovesTimedOut ==
    [][HeartbeatLoop
         => /\ DOMAIN peers' = {a \in DOMAIN peers : now - peers[a] <= PeerTimeout}
            /\ \A a \in DOMAIN peers' : peers'[a] = peers[a]
      ]_vars

\* C26 as stated: the sweep removes exactly the peers last seen more than 60
\* seconds before it, and no peer is in the registry more than 90 seconds
\* after it was last seen.
C26_RemovedWithin90 ==
    /\ SweepRemovesTimedOut
    /\ [](\A a \in DOMAIN peers : now - peers[a] <= PeerTimeout + HeartbeatSleep)

\* C26, amended: the sweep removes exactly the peers last seen more than 60
\* seconds before it, and no peer is in the registry longer after it was last
\* seen than 60 seconds and the longest time between two sweeps, which is the
\* 30 seconds of sleep and the time the thread takes to run after it.
C26_RemovedAfterTimeout ==
    /\ SweepRemovesTimedOut
    /\ [](\A a \in DOMAIN peers :
             now - peers[a] <= PeerTimeout + HeartbeatSleep + MaxLateness)

\* A sweep has just removed the address registered on accept and kept the
\* address of the Discovery, last seen exactly 60 seconds before.
C26_Witness ==
    /\ heartbeat = now + HeartbeatSleep
    /\ ephemeral \notin DOMAIN peers
    /\ other \in DOMAIN peers
    /\ now - peers[other] = PeerTimeout

----------------------------------------------------------------------------
(* Properties of the faults of a connection *)

\* The connections other than the one a step is about are as they were.
OtherConnectionsKept ==
    \E i \in DOMAIN connections \cup {0} :
        \A k \in DOMAIN connections \ {i} :
            LET to == IF Len(connections') < Len(connections) /\ k > i THEN k - 1 ELSE k
            IN to \in DOMAIN connections' /\ connections'[to] = connections[k]

\* C27: a connection that is closed or fails to be read, whether before or
\* after it is accepted, and a message that fails to deserialize leave the
\* ledger as it was, the listener and the heartbeat running and the other
\* connections as they were.
C27_FaultsIsolated ==
    [][(\/ CloseConnection
        \/ AcceptResetConnection
        \/ HandleConnection /\ ret'.op = "handle_connection")
         => /\ UNCHANGED ledger
            /\ listener' = listener
            /\ heartbeat' = heartbeat
            /\ panicked' = panicked
            /\ OtherConnectionsKept
      ]_vars

----------------------------------------------------------------------------
(* The snapshot in blockchain.json (src/src/blockchain.rs, src/src/main.rs) *)

\* The decimal digits of 2^64
Two64 == <<1, 8, 4, 4, 6, 7, 4, 4, 0, 7, 3, 7, 0, 9, 5, 5, 1, 6, 1, 6>>

RECURSIVE Digits(_)
\* The decimal digits of a non-negative integer
Digits(n) == IF n < 10 THEN <<n>> ELSE Append(Digits(n \div 10), n % 10)

RECURSIVE DigitsMinus(_, _)
\* The digits of d - m, for the digits d of a number and a smaller number m
DigitsMinus(d, m) ==
    IF m = 0 THEN d
    ELSE LET last == d[Len(d)]
             front == SubSeq(d, 1, Len(d) - 1)
             unit == m % 10
         IN IF last >= unit
            THEN Append(DigitsMinus(front, m \div 10), last - unit)
            ELSE Append(DigitsMinus(front, (m \div 10) + 1), last + 10 - unit)

RECURSIVE DigitsValue(_)
\* The number written by the digits d
DigitsValue(d) ==
    IF d = <<>> THEN 0
    ELSE (DigitsValue(SubSeq(d, 1, Len(d) - 1)) * 10) + d[Len(d)]

RECURSIVE DigitsDifference(_, _, _)
\* The digits of a - b - borrow, for the digits a and b of two numbers of the
\* same length
DigitsDifference(a, b, borrow) ==
    IF a = <<>> THEN <<>>
    ELSE LET n == Len(a)
             last == a[n] - b[n] - borrow
         IN Append(DigitsDifference(SubSeq(a, 1, n - 1), SubSeq(b, 1, n - 1),
                                    IF last < 0 THEN 1 ELSE 0),
                   IF last < 0 THEN last + 10 ELSE last)

\* serde_json's text of a u64 (and of a u32): the decimal digits of the
\* value; a wrapped representative x < 0 stands for 2^64 + x.
json_u64(x) ==
    LET d == IF x >= 0 THEN Digits(x) ELSE DigitsMinus(Two64, -x)
    IN [i \in 1..Len(d) |-> Ch0 + d[i]]

\* serde_json's u64 of a number: the representative of the value written.
\* The values of the model are within a few digits of 0 or of 2^64.
parse_u64(text) ==
    LET d == [i \in 1..Len(text) |-> text[i] - Ch0]
    IN IF Len(d) < Len(Two64) THEN DigitsValue(d)
       ELSE -DigitsValue(DigitsDifference(Two64, d, 0))

RECURSIVE escape(_)
\* serde_json's escapes of '"' (34) and '\' (92), half by half
escape(s) ==
    IF s = <<>> THEN <<>>
    ELSE IF Len(s) = 1 THEN (IF s[1] \in {34, 92} THEN <<92, s[1]>> ELSE s)
    ELSE LET mid == Len(s) \div 2
         IN escape(SubSeq(s, 1, mid)) \o escape(SubSeq(s, mid + 1, Len(s)))

RECURSIVE backslashes(_, _)
\* The length of the run of '\' that ends at text[i]
backslashes(text, i) ==
    IF i = 0 \/ text[i] # 92 THEN 0 ELSE 1 + backslashes(text, i - 1)

RECURSIVE unescape(_)
\* The string of an escaped text, half by half: an escape and the character
\* it escapes stay in the same half
unescape(text) ==
    IF Len(text) <= 1 THEN text
    ELSE IF Len(text) = 2 /\ text[1] = 92 THEN <<text[2]>>
    ELSE LET mid == Len(text) \div 2
             cut == IF backslashes(text, mid) % 2 = 1 THEN mid + 1 ELSE mid
         IN unescape(SubSeq(text, 1, cut)) \o unescape(SubSeq(text, cut + 1, Len(text)))

\* serde_json's text of a String: quoted and escaped
json_string(s) == <<34>> \o escape(s) \o <<34>>

\* serde_json's String of a quoted text
parse_string(text) == unescape(SubSeq(text, 2, Len(text) - 1))

\* "null"
json_null == <<110, 117, 108, 108>>

\* serde_json's text of an Option<String>
json_option(o) == IF o = None THEN json_null ELSE json_string(o[1])

\* serde_json's Option<String> of a text
parse_option(text) == IF text = json_null THEN None ELSE <<parse_string(text)>>

\* Two decimal digits
TwoDigits(n) == <<Ch0 + (n \div 10), Ch0 + (n % 10)>>

\* "1970-01-01T00:"
FirstHour == <<49, 57, 55, 48, 45, 48, 49, 45, 48, 49, 84, 48, 48, 58>>

\* chrono's serde text of a DateTime<Utc>: RFC 3339, here of a whole second
\* of the first hour
json_datetime(t) ==
    <<34>> \o FirstHour \o TwoDigits(t \div 60) \o <<58>> \o TwoDigits(t % 60)
           \o <<90, 34>>

\* chrono's DateTime<Utc> of an RFC 3339 text
parse_datetime(text) ==
    LET at == Len(FirstHour) + 1
        digit(k) == text[at + k] - Ch0
    IN (((digit(1) * 10) + digit(2)) * 60) + (digit(4) * 10) + digit(5)

\* Serialize of Transaction
json_transaction(tx) ==
    [id |-> json_string(tx.id),
     sender |-> json_string(tx.sender),
     receiver |-> json_string(tx.receiver),
     amount |-> json_u64(tx.amount),
     timestamp |-> json_datetime(tx.timestamp),
     signature |-> json_option(tx.signature),
     public_key |-> json_option(tx.public_key)]

\* Deserialize of Transaction
parse_transaction(doc) ==
    [id |-> parse_string(doc.id),
     sender |-> parse_string(doc.sender),
     receiver |-> parse_string(doc.receiver),
     amount |-> parse_u64(doc.amount),
     timestamp |-> parse_datetime(doc.timestamp),
     signature |-> parse_option(doc.signature),
     public_key |-> parse_option(doc.public_key)]

\* Serialize of Block and BlockHeader
json_block(b) ==
    [header |-> [timestamp |-> json_datetime(b.header.timestamp),
                 prev_hash |-> json_string(b.header.prev_hash),
                 hash |-> json_string(b.header.hash),
                 nonce |-> json_u64(b.header.nonce),
                 difficulty |-> json_u64(b.header.difficulty),
                 validator |-> json_option(b.header.validator)],
     transactions |-> [i \in 1..Len(b.transactions) |->
                          json_transaction(b.transactions[i])],
     height |-> json_u64(b.height)]

\* Deserialize of Block and BlockHeader
parse_block(doc) ==
    [header |-> [timestamp |-> parse_datetime(doc.header.timestamp),
                 prev_hash |-> parse_string(doc.header.prev_hash),
                 hash |-> parse_string(doc.header.hash),
                 nonce |-> parse_u64(doc.header.nonce),
                 difficulty |-> parse_u64(doc.header.difficulty),
                 validator |-> parse_option(doc.header.validator)],
     transactions |-> [i \in 1..Len(doc.transactions) |->
                          parse_transaction(doc.transactions[i])],
     height |-> parse_u64(doc.height)]

\* Serialize of Blockchain, serde_json::to_string_pretty(self): the chain, the
\* pool, the difficulty, the reward and the balance table; the entries of the
\* HashMap are written in the order its iterator gives them.  The three
\* consensus fields are left out: they are PoW, null and null in every ledger
\* that is saved here.
to_json(l, order) ==
    [chain |-> [i \in 1..Len(l.chain) |-> json_block(l.chain[i])],
     pending_transactions |-> [i \in 1..Len(l.pending_transactions) |->
                                  json_transaction(l.pending_transactions[i])],
     difficulty |-> json_u64(l.difficulty),
     mining_reward |-> json_u64(l.mining_reward),
     balances |-> [i \in 1..Len(order) |->
                      [key |-> json_string(order[i]),
                       value |-> json_u64(l.balances[order[i]])]]]

\* parse_map leaving the entries of the document out
no_entries(entries) == <<>>

RECURSIVE parse_map(_)
\* Deserialize of HashMap<String, u64>: the entries are inserted one by one
parse_map(entries) ==
    IF entries = <<>> THEN <<>>
    ELSE LET last == entries[Len(entries)]
         IN Insert(parse_map(SubSeq(entries, 1, Len(entries) - 1)),
                   parse_string(last.key), parse_u64(last.value))

\* Deserialize of Blockchain, serde_json::from_str(&json)
from_json(doc) ==
    [chain |-> [i \in 1..Len(doc.chain) |-> parse_block(doc.chain[i])],
     pending_transactions |-> [i \in 1..Len(doc.pending_transactions) |->
                                  parse_transaction(doc.pending_transactions[i])],
     difficulty |-> parse_u64(doc.difficulty),
     mining_reward |-> parse_u64(doc.mining_reward),
     balances |-> parse_map(doc.balances)]

\* The ledger as a value
this_ledger ==
    [chain |-> chain, pending_transactions |-> pending_transactions,
     difficulty |-> difficulty, mining_reward |-> mining_reward, balances |-> balances]

\* Blockchain::load_from_file of a file that exists: the ledger of the
\* document; an empty balance table gets the entry system = 1000.
load_from_file(doc) ==
    LET blockchain == from_json(doc)
    IN IF blockchain.balances = <<>>
       THEN [blockchain EXCEPT !.balances = Insert(<<>>, system, SystemInitialBalance)]
       ELSE blockchain

\* Blockchain::save_to_file from option 6 of the menu of main: the document
\* is written to the file, or fs::write fails and the file is as before.
save_to_file(order, write_ok) ==
    /\ ~panicked
    /\ file' = IF write_ok THEN to_json(this_ledger, order) ELSE file
    /\ ret' = [op |-> "save_to_file", ok |-> write_ok, err |-> NoError, block |-> None]
    /\ UNCHANGED <<chain, pending_transactions, difficulty, mining_reward, balances,
                   now, overflow_checks, panicked, seeded, connections, peers,
                   heartbeat, listener, held, todo, mined, consensus>>

\* A direct write to the public balance table of a ledger that has only its
\* genesis block: blockchain.balances.clear()
clear_balances ==
    /\ ~panicked
    /\ ret.op = "new"
    /\ balances' = <<>>
    /\ seeded' = balances'
    /\ ret' = [op |-> "clear_balances", ok |-> TRUE, err |-> NoError, block |-> None]
    /\ UNCHANGED <<chain, pending_transactions, difficulty, mining_reward,
                   now, overflow_checks, panicked, connections, peers, heartbeat,
                   listener, file, held, todo, mined, consensus>>

\* main of a new process, with blockchain.json in place: initialize_blockchain
\* takes the ledger of load_from_file, and the node starts with no connection
\* and no peer.
initialize_blockchain ==
    /\ file # None
    /\ \E blockchain \in {load_from_file(file)} :
          /\ chain' = blockchain.chain
          /\ pending_transactions' = blockchain.pending_transactions
          /\ difficulty' = blockchain.difficulty
          /\ mining_reward' = blockchain.mining_reward
          /\ balances' = blockchain.balances
    /\ panicked' = FALSE
    /\ connections' = <<>>
    /\ peers' = <<>>
    /\ heartbeat' = now + HeartbeatSleep
    /\ listener' = TRUE
    /\ ret' = [op |-> "load_from_file", ok |-> TRUE, err |-> NoError, block |-> None]
    /\ UNCHANGED <<now, overflow_checks, seeded, file, held, todo, mined, consensus>>

\* The senders of the transactions of a saved ledger
SnapshotSenders == {system, alice}

\* The ledger is changed until its snapshot is taken
ClearBalances == file = None /\ clear_balances

SeedSnapshot == file = None /\ Seed

AddTransactionSnapshot ==
    /\ file = None
    /\ Len(pending_transactions) < MaxPending
    /\ \E sender \in SnapshotSenders : submit_transaction(sender, bob, MaxAmount)

MinePendingSnapshot == file = None /\ MinePending /\ now' <= MaxSnapshotTime

SaveToFile ==
    \E order \in Orders(DOMAIN balances), write_ok \in BOOLEAN :
        save_to_file(order, write_ok)

InitializeBlockchain == initialize_blockchain

NextSnapshot ==
    \/ ClearBalances
    \/ SeedSnapshot
    \/ AddTransactionSnapshot
    \/ MinePendingSnapshot
    \/ SaveToFile
    \/ InitializeBlockchain

SpecSnapshot == Init /\ [][NextSnapshot]_vars

----------------------------------------------------------------------------
(* Properties of the snapshot *)

\* C28: a ledger that is saved and then loaded from its snapshot has the same
\* chain, pending queue, difficulty and reward, and the same balance table,
\* except that an empty balance table is loaded as the single entry
\* system = 1000.
C28_SnapshotRoundTrip ==
    [][(ret.op = "save_to_file" /\ ret.ok /\ ret'.op = "load_from_file")
        => /\ chain' = chain
           /\ pending_transactions' = pending_transactions
           /\ difficulty' = difficulty
           /\ mining_reward' = mining_reward
           /\ balances' = IF balances = <<>>
                          THEN Insert(<<>>, system, SystemInitialBalance)
                          ELSE balances]_vars

\* A ledger of three blocks with a pending transaction and a wrapped balance
\* has been loaded from its snapshot.
C28_Witness ==
    /\ ret.op = "load_from_file"
    /\ Len(chain) = MaxChain
    /\ pending_transactions # <<>>
    /\ \E a \in DOMAIN balances : balances[a] < 0
    /\ from_json(file).balances = balances

----------------------------------------------------------------------------
(* Validation from the menu (src/src/main.rs) *)

\* Option 5 of the menu of main: blockchain.lock().unwrap().is_chain_valid()
validate_chain ==
    /\ ~panicked
    /\ ret' = [op |-> "is_chain_valid", ok |-> is_chain_valid(chain), err |-> NoError,
               block |-> None]
    /\ UNCHANGED <<chain, pending_transactions, difficulty, mining_reward, balances,
                   now, overflow_checks, panicked, seeded, connections, peers,
                   heartbeat, listener, file, held, todo, mined, consensus>>

ValidateChain == validate_chain

NextValidate == NextInbound \/ ValidateChain

SpecValidate == Init /\ [][NextValidate]_vars

----------------------------------------------------------------------------
(* Properties of the validation *)

\* C29: is_chain_valid returns true exactly when every block after the
\* genesis block has the hash of the block before it as prev_hash, a stored
\* hash equal to its recomputed hash and a hash that meets its own header
\* difficulty; the genesis block is not checked.  The outcome of the menu
\* option is compared on the ledger, the function on the chains a peer can
\* send in this state.
C29_ChainValidity ==
    LET meets_difficulty(b) ==
            /\ Len(b.header.hash) >= b.header.difficulty
            /\ \A k \in 1..b.header.difficulty : b.header.hash[k] = Ch0
        checked(c) ==
            \A i \in 1..(Len(c) - 1) :
                /\ c[i + 1].header.prev_hash = c[i].header.hash
                /\ c[i + 1].header.hash = Block_calculate_hash(c[i + 1])
                /\ meets_difficulty(c[i + 1])
        block == PeerBlock(chain, now)
    IN /\ ret.op = "is_chain_valid" => (ret.ok <=> checked(chain))
       /\ \A c \in CandidateChains(block, PeerBlock(<<block>>, now)) :
             is_chain_valid(c) <=> checked(c)

\* The menu option has reported a chain of three blocks invalid whose first
\* two blocks are a valid chain, with a genesis block that does not meet its
\* difficulty.
C29_Witness ==
    /\ ret.op = "is_chain_valid"
    /\ ~ret.ok
    /\ Len(chain) = MaxChain
    /\ is_chain_valid(SubSeq(chain, 1, 2))
    /\ ~Block_is_valid_hash(chain[1])

----------------------------------------------------------------------------
(* The chain of a peer that started on its own (src/src/blockchain.rs) *)

\* The chain of a peer whose ledger was made at second PeerStart, with its own
\* genesis block and two blocks mined on it
ForkChain(t) ==
    LET peer_genesis == Block_create_genesis(DefaultDifficulty, PeerStart)
        first == PeerBlock(<<peer_genesis>>, t)
        second == PeerBlock(<<peer_genesis, first>>, t)
    IN <<peer_genesis, first, second>>

\* The peer answers with its own chain, or with the first two blocks of it
PeerSendsFork ==
    /\ Len(connections) < MaxConnections
    /\ \E k \in 2..MaxChain : peer_sends(ResponseChain(SubSeq(ForkChain(now), 1, k)))

NextHistory == NextInbound \/ PeerSendsFork \/ AddTransactionNode \/ ValidateChain

SpecHistory == Init /\ [][NextHistory]_vars

----------------------------------------------------------------------------
(* Properties of the history of the chain *)

\* C30: every step leaves the chain unchanged, extends it with the previous
\* chain kept as an unmodified prefix, or replaces it as a whole by a strictly
\* longer chain through replace_chain; so the length of the chain never
\* decreases and a block of the chain is never modified in place.
C30_ChainHistory ==
    [][LET extended == /\ Len(chain') > Len(chain)
                       /\ SubSeq(chain', 1, Len(chain)) = chain
           replaced == /\ Len(chain') > Len(chain)
                       /\ ret'.op = "replace_chain"
       IN /\ chain' = chain \/ extended \/ replaced
          /\ Len(chain') >= Len(chain)
          /\ (\E i \in DOMAIN chain : i \in DOMAIN chain' /\ chain'[i] # chain[i])
                => replaced
      ]_vars

\* The chain of the peer, with another genesis block, has replaced the local
\* chain as a whole.
C30_Witness ==
    /\ ret.op = "replace_chain"
    /\ ret.ok
    /\ Len(chain) = MaxChain
    /\ chain[1] = Block_create_genesis(DefaultDifficulty, PeerStart)
    /\ chain[1].header.timestamp \notin StartTimes

----------------------------------------------------------------------------
(* Properties of the heights *)

\* C31: in every reachable state the block at index i of the chain (counted
\* from 0) has height i, also after replace_chain and after blocks were
\* appended from a ResponseBlocks message.
C31_HeightIsIndex == \A i \in DOMAIN chain : chain[i].height = i - 1

----------------------------------------------------------------------------
(* The threads and the two locks of a node (src/src/p2p_node.rs, src/src/cli.rs) *)

ledger_lock == "ledger"     \* Arc<Mutex<Blockchain>>
peers_lock == "peers"       \* Arc<Mutex<HashMap<SocketAddr, PeerInfo>>>

\* The locks a thread holds
holds(t) == {held[t][k] : k \in DOMAIN held[t]}

\* A lock taken by any thread at any time
never_taken(l) == TRUE

\* Mutex::lock returns when no thread holds the lock
lock_is_free(l) == \A t \in Threads : l \notin holds(t)

\* The thread is in none of its calls
idle(t) == held[t] = <<>> /\ todo[t] = <<>>

\* broadcast_sync_status taking the registry before the ledger
peers_then_ledger == <<peers_lock, ledger_lock>>

\* broadcast_sync_status: self.blockchain.lock(), then self.peers.lock() in
\* broadcast_message
sync_status_locks == <<ledger_lock, peers_lock>>

\* The thread enters a call that takes the locks in this order
call(t, locks) ==
    /\ idle(t)
    /\ todo' = [todo EXCEPT ![t] = locks]
    /\ UNCHANGED <<chain, pending_transactions, difficulty, mining_reward, balances,
                   now, overflow_checks, panicked, seeded, ret, connections, peers,
                   heartbeat, listener, file, held, mined, consensus>>

\* Mutex::lock of the next lock of the call returns; lock().unwrap() on the
\* ledger lock a panic has poisoned ends the thread instead
acquire(t) ==
    /\ todo[t] # <<>>
    /\ lock_is_free(Head(todo[t]))
    /\ Head(todo[t]) = ledger_lock => ~panicked
    /\ held' = [held EXCEPT ![t] = Append(@, Head(todo[t]))]
    /\ todo' = [todo EXCEPT ![t] = Tail(@)]
    /\ UNCHANGED <<chain, pending_transactions, difficulty, mining_reward, balances,
                   now, overflow_checks, panicked, seeded, ret, connections, peers,
                   heartbeat, listener, file, mined, consensus>>

\* The guards of the thread are dropped
release(t) == held' = [held EXCEPT ![t] = <<>>]

\* mine_block_cli holding the ledger lock: mine_pending_transactions up to
\* new_block.mine(), d seconds after the previous call
mine_block(miner_address, d) ==
    /\ held["main"] = <<ledger_lock>>
    /\ todo["main"] = <<>>
    /\ mined = None
    /\ pending_transactions = <<>> => d = 0
    /\ now' = now + d
    /\ IF pending_is_empty(pending_transactions)
       THEN /\ ret' = [op |-> "mine_pending_transactions", ok |-> FALSE,
                       err |-> "no_pending", block |-> None]
            /\ release("main")
            /\ UNCHANGED mined
       ELSE /\ LET reward_transaction ==
                       Transaction_new(system, miner_address, mining_reward, now')
                   transactions == Append(pending_transactions, reward_transaction)
                   prev_hash == get_latest_block(chain).header.hash
               IN mined' = <<Block_mine(Block_new(prev_hash, transactions, Len(chain),
                                                  difficulty, now'))>>
            /\ UNCHANGED <<ret, held>>
    /\ UNCHANGED <<chain, pending_transactions, difficulty, mining_reward, balances,
                   overflow_checks, panicked, seeded, connections, peers, heartbeat,
                   listener, file, todo, consensus>>

\* mine_pending_transactions from self.chain.push(new_block) on, and the
\* guard of mine_block_cli dropped
push_mined ==
    /\ mined # None
    /\ \E updated \in {update_balances(balances, Append(chain, mined[1]), overflow_checks)} :
          /\ chain' = Append(chain, mined[1])
          /\ balances' = updated.balances
          /\ panicked' = updated.panicked
          /\ IF updated.panicked
             THEN /\ ret' = [op |-> "mine_pending_transactions", ok |-> FALSE,
                             err |-> "panic", block |-> None]
                  /\ UNCHANGED <<difficulty, pending_transactions>>
             ELSE /\ difficulty' = adjust_difficulty(difficulty, chain')
                  /\ pending_transactions' = <<>>
                  /\ ret' = [op |-> "mine_pending_transactions", ok |-> TRUE,
                             err |-> NoError, block |-> mined]
    /\ mined' = None
    /\ release("main")
    /\ UNCHANGED <<mining_reward, now, overflow_checks, seeded, connections, peers,
                   heartbeat, listener, file, todo, consensus>>

\* broadcast_sync_status holding both locks: the messages are sent and the
\* guards dropped
send_sync_status(reachable) ==
    /\ Len(held["main"]) = Len(sync_status_locks)
    /\ todo["main"] = <<>>
    /\ connections' = connections \o broadcast_sync_status(reachable)
    /\ ret' = [op |-> "broadcast_sync_status", ok |-> TRUE, err |-> NoError, block |-> None]
    /\ release("main")
    /\ UNCHANGED <<chain, pending_transactions, difficulty, mining_reward, balances,
                   now, overflow_checks, panicked, seeded, peers, heartbeat, listener,
                   file, todo, mined, consensus>>

\* broadcast_transaction holding the lock of the registry: broadcast_message
\* sends and the guard is dropped
send_transaction(transaction, order, reachable) ==
    /\ held["main"] = <<peers_lock>>
    /\ todo["main"] = <<>>
    /\ broadcast_message(NewTransaction(transaction), order, reachable)
    /\ release("main")
    /\ UNCHANGED <<todo, mined, consensus>>

\* A peer connects and writes one message: accept returns in the thread of
\* listen_for_connections, which goes on to peers.lock()
accept_connection(message) ==
    /\ listener
    /\ idle("listener")
    /\ idle("handler")
    /\ connections' = Append(connections, Dial(local, message))
    /\ todo' = [todo EXCEPT !["listener"] = <<peers_lock>>]
    /\ UNCHANGED <<chain, pending_transactions, difficulty, mining_reward, balances,
                   now, overflow_checks, panicked, seeded, ret, peers, heartbeat,
                   listener, file, held, mined, consensus>>

\* listen_for_connections holding the lock of the registry: the address the
\* peer dialed from is inserted, the guard dropped and the handler spawned
insert_accepted ==
    /\ held["listener"] = <<peers_lock>>
    /\ peers' = insert_peer(peers, ephemeral, now)
    /\ release("listener")
    /\ UNCHANGED <<chain, pending_transactions, difficulty, mining_reward, balances,
                   now, overflow_checks, panicked, seeded, ret, connections, heartbeat,
                   listener, file, todo, mined, consensus>>

\* The lock the arm of process_message takes for a message
lock_of(message) == IF message.kind = "Discovery" THEN peers_lock ELSE ledger_lock

\* handle_connection has read the first unread message of connection i and
\* process_message goes on to the lock of its arm
read_message(i) ==
    /\ i \in DOMAIN connections
    /\ connections[i].acceptor = local
    /\ connections[i].unread # <<>>
    /\ idle("listener")
    /\ call("handler", <<lock_of(Head(connections[i].unread))>>)

\* process_message holding the lock of its arm: the message is handled and
\* the guard dropped
handle_message(i, write_ok) ==
    /\ i \in DOMAIN connections
    /\ connections[i].acceptor = local
    /\ connections[i].unread # <<>>
    /\ held["handler"] = <<lock_of(Head(connections[i].unread))>>
    /\ dispatch(i, Head(connections[i].unread), WholeMessage(i), write_ok)
    /\ release("handler")
    /\ UNCHANGED <<todo, mined, consensus>>

\* heartbeat_loop: the sleep has ended and the thread goes on to peers.lock()
end_sleep ==
    /\ heartbeat <= now
    /\ call("heartbeat", <<peers_lock>>)

\* heartbeat_loop holding the lock of the registry: the sweep, and the guard
\* dropped at the end of the turn
sweep ==
    /\ held["heartbeat"] = <<peers_lock>>
    /\ heartbeat_loop
    /\ release("heartbeat")
    /\ UNCHANGED <<todo, mined, consensus>>

\* The messages a peer sends while this node mines
LockMessages(block) ==
    {ResponseBlocks(<<block>>), ResponseChain(Append(chain, block)), Discovery(other)}

CallMine == Len(chain) < MaxLockChain /\ call("main", <<ledger_lock>>)

CallSyncStatus == Len(connections) < MaxLockConnections /\ call("main", sync_status_locks)

CallBroadcast == Len(connections) < MaxLockConnections /\ call("main", <<peers_lock>>)

Acquire == \E t \in Threads : acquire(t)

MineBlock ==
    \E d \in {0, HeartbeatSleep} :
        /\ pending_transactions # <<>> => d = HeartbeatSleep
        /\ mine_block(alice, d)

PushMined == push_mined

SendSyncStatus == \E reachable \in BOOLEAN : send_sync_status(reachable)

SendTransaction ==
    \E order \in Orders(DOMAIN peers), reachable \in SUBSET {remote} :
        send_transaction(PeerTransaction, order, reachable)

AddTransactionLocks ==
    /\ idle("main")
    /\ lock_is_free(ledger_lock)
    /\ Len(pending_transactions) < MaxPending
    /\ submit_transaction(system, alice, MaxAmount)

AcceptConnection ==
    /\ Len(chain) < MaxLockChain - 1
    /\ \A i \in DOMAIN connections : connections[i].acceptor # local
    /\ \E message \in LockMessages(PeerBlock(chain, now)) : accept_connection(message)

InsertAccepted == insert_accepted

ReadMessage == \E i \in DOMAIN connections : read_message(i)

HandleMessage == \E i \in DOMAIN connections : handle_message(i, TRUE)

EndSleep == end_sleep

Sweep == sweep

NextLocks ==
    \/ CallMine
    \/ CallSyncStatus
    \/ CallBroadcast
    \/ Acquire
    \/ MineBlock
    \/ PushMined
    \/ SendSyncStatus
    \/ SendTransaction
    \/ AddTransactionLocks
    \/ AcceptConnection
    \/ InsertAccepted
    \/ ReadMessage
    \/ HandleMessage
    \/ EndSleep
    \/ Sweep

SpecLocks == Init /\ [][NextLocks]_vars

(* Properties of the locks *)

\* The threads holding the lock of the ledger
LedgerHolders == {t \in Threads : ledger_lock \in holds(t)}

\* C32: ledger operations of different threads never interleave: at most one
\* thread holds the lock of the ledger, the ledger does not change under a
\* thread that holds the lock before and after a step of another thread, and
\* the block mine_pending_transactions appends has prev_hash equal to the hash
\* of the tip at the moment of the append, also when chain-carrying messages
\* arrive during mining.
C32_NoInterleaving ==
    [][/\ Cardinality(LedgerHolders') <= 1
       /\ (\E t \in LedgerHolders : t \in LedgerHolders') => ledger' = ledger
       /\ (mined # None /\ mined' = None) =>
             /\ mined[1].header.prev_hash = get_latest_block(chain).header.hash
             /\ chain' = Append(chain, mined[1])]_vars

\* A ResponseChain message has arrived while the main thread is between
\* new_block.mine() and the push, and its handler waits for the lock
C32_Witness ==
    /\ mined # None
    /\ todo["handler"] = <<ledger_lock>>
    /\ \E i \in DOMAIN connections :
          /\ connections[i].acceptor = local
          /\ connections[i].unread # <<>>
          /\ Head(connections[i].unread).kind = "ResponseChain"

\* The lock the thread waits for
waits_for(t, l) == todo[t] # <<>> /\ Head(todo[t]) = l

\* C39: the threads of a node never deadlock on the two locks: a thread that
\* holds both took the lock of the ledger first, no thread waits for the lock
\* of the ledger while it holds the lock of the registry, and no two threads
\* wait for a lock the other holds.
C39_LockOrder ==
    /\ \A t \in Threads :
          {ledger_lock, peers_lock} \subseteq holds(t) => held[t] = <<ledger_lock, peers_lock>>
    /\ \A t \in Threads : waits_for(t, ledger_lock) => peers_lock \notin holds(t)
    /\ \A t, u \in Threads :
          ~(\E l \in holds(u), m \in holds(t) : waits_for(t, l) /\ waits_for(u, m))

\* broadcast_sync_status holds both locks while a handler waits for the
\* ledger and the heartbeat for the registry
C39_Witness ==
    /\ held["main"] = <<ledger_lock, peers_lock>>
    /\ waits_for("handler", ledger_lock)
    /\ waits_for("heartbeat", peers_lock)

----------------------------------------------------------------------------
(* The consensus strategies (src/src/consensus.rs) *)

\* a + b leaves the u64 range, for any two u64 values
AddWraps(a, b) ==
    \/ a < 0 /\ b < 0
    \/ (a < 0 /\ b >= 0 /\ a + b >= 0)
    \/ (a >= 0 /\ b < 0 /\ a + b >= 0)

\* StakeInfo { amount, start_time, validator }
StakeInfo(amount, t, validator) ==
    [amount |-> amount, start_time |-> t, validator |-> validator]

\* DelegationInfo { delegator, amount, candidate }
DelegationInfo(delegator, amount, candidate) ==
    [delegator |-> delegator, amount |-> amount, candidate |-> candidate]

\* ProofOfStake::new
ProofOfStake_new(minimum_stake) ==
    [stakes |-> <<>>, minimum_stake |-> minimum_stake]

\* stake accepting any amount
stake_any_amount(pos, validator, amount, t) ==
    [self |-> [pos EXCEPT !.stakes = Insert(@, validator, StakeInfo(amount, t, validator))],
     ok |-> TRUE]

\* ProofOfStake::stake: the strategy afterwards and whether Ok was returned
ProofOfStake_stake(pos, validator, amount, t) ==
    IF U64Less(amount, pos.minimum_stake)
    THEN [self |-> pos, ok |-> FALSE]
    ELSE [self |-> [pos EXCEPT !.stakes = Insert(@, validator, StakeInfo(amount, t, validator))],
          ok |-> TRUE]

\* ProofOfStake::unstake
ProofOfStake_unstake(pos, validator) ==
    IF validator \in DOMAIN pos.stakes
    THEN [self |-> [pos EXCEPT !.stakes = [v \in DOMAIN pos.stakes \ {validator} |-> pos.stakes[v]]],
          ok |-> TRUE]
    ELSE [self |-> pos, ok |-> FALSE]

\* validate_transaction asking for a stake of the sender
validate_staked_transaction(pos, transaction, bal) ==
    /\ transaction.sender \in DOMAIN pos.stakes
    /\ transaction.amount # 0
    /\ ~U64Less(get_balance(bal, transaction.sender), transaction.amount)

\* <ProofOfStake as Consensus>::validate_transaction
ProofOfStake_validate_transaction(pos, transaction, bal) ==
    IF transaction.amount = 0 THEN FALSE
    ELSE LET sender_balance == get_balance(bal, transaction.sender)
         IN ~U64Less(sender_balance, transaction.amount)

\* DelegatedProofOfStake::new
DelegatedProofOfStake_new(minimum_stake, minimum_delegation) ==
    [stakes |-> <<>>, delegations |-> <<>>, candidates |-> <<>>,
     minimum_stake |-> minimum_stake, minimum_delegation |-> minimum_delegation]

\* DelegatedProofOfStake::register_candidate
register_candidate(dpos, candidate, amount, t) ==
    IF U64Less(amount, dpos.minimum_stake)
    THEN [self |-> dpos, ok |-> FALSE]
    ELSE [self |-> [dpos EXCEPT
                       !.stakes = Insert(@, candidate, StakeInfo(amount, t, candidate)),
                       !.candidates = Append(@, candidate)],
          ok |-> TRUE]

\* format!("{}:{}", delegator, candidate)
delegation_key(delegator, candidate) == delegator \o <<Colon>> \o candidate

\* DelegatedProofOfStake::delegate
delegate(dpos, delegator, candidate, amount) ==
    IF U64Less(amount, dpos.minimum_delegation)
    THEN [self |-> dpos, ok |-> FALSE]
    ELSE [self |-> [dpos EXCEPT
                       !.delegations = Insert(@, delegation_key(delegator, candidate),
                                              DelegationInfo(delegator, amount, candidate))],
          ok |-> TRUE]

RECURSIVE sum(_, _)
\* Iterator::sum of the amounts of the records under these keys, wrapped
sum(records, keys) ==
    IF keys = {} THEN 0
    ELSE LET key == CHOOSE k \in keys : TRUE
         IN records[key].amount + sum(records, keys \ {key})

\* Iterator::sum leaves the u64 range: the addends are not negative, so that
\* the order of the iteration makes no difference
sum_wraps(records, keys) ==
    LET large == {k \in keys : records[k].amount < 0}
    IN \/ Cardinality(large) >= 2
       \/ Cardinality(large) = 1 /\ sum(records, keys) >= 0

\* The weight of every candidate taken for 0
no_weight(dpos, candidate, checks) == [value |-> 0, panicked |-> FALSE]

\* DelegatedProofOfStake::calculate_candidate_weight: the weight, or the
\* panic of an addition that overflows in a build with overflow checks
calculate_candidate_weight(dpos, candidate, checks) ==
    LET own_stake == IF candidate \in DOMAIN dpos.stakes
                     THEN dpos.stakes[candidate].amount ELSE 0
        pointing == {k \in DOMAIN dpos.delegations : dpos.delegations[k].candidate = candidate}
        delegated_amount == sum(dpos.delegations, pointing)
    IN IF checks /\ (sum_wraps(dpos.delegations, pointing)
                     \/ AddWraps(own_stake, delegated_amount))
       THEN [value |-> 0, panicked |-> TRUE]
       ELSE [value |-> own_stake + delegated_amount, panicked |-> FALSE]

RECURSIVE select_from(_, _, _, _, _)
\* The loop of select_validator from the i-th candidate on
select_from(dpos, i, max_weight, selected_validator, checks) ==
    IF i > Len(dpos.candidates)
    THEN [value |-> selected_validator, panicked |-> FALSE]
    ELSE LET candidate == dpos.candidates[i]
             weight == calculate_candidate_weight(dpos, candidate, checks)
         IN IF weight.panicked THEN [value |-> None, panicked |-> TRUE]
            ELSE IF U64Less(max_weight, weight.value)
            THEN select_from(dpos, i + 1, weight.value, <<candidate>>, checks)
            ELSE select_from(dpos, i + 1, max_weight, selected_validator, checks)

\* <DelegatedProofOfStake as Consensus>::select_validator
select_validator(dpos, checks) ==
    IF dpos.candidates = <<>> THEN [value |-> None, panicked |-> FALSE]
    ELSE select_from(dpos, 1, 0, None, checks)

\* <DelegatedProofOfStake as Consensus>::validate_transaction
DelegatedProofOfStake_validate_transaction(dpos, transaction, bal) ==
    IF transaction.amount = 0 THEN FALSE
    ELSE LET sender_balance == get_balance(bal, transaction.sender)
         IN ~U64Less(sender_balance, transaction.amount)

\* What a call on a strategy returned: the call, the names and the amount it
\* was given, and a place for the value of each kind
returned(op, ok, names, amount) ==
    [op |-> op, ok |-> ok, err |-> NoError, block |-> None, names |-> names,
     amount |-> amount, transaction |-> None, weight |-> 0, selected |-> None,
     valid |-> FALSE]

\* consensus_menu "1": the three assignments, each under its own guard
switch_to_pow ==
    /\ ~panicked
    /\ consensus_type' = "PoW"
    /\ pos_consensus' = None
    /\ dpos_consensus' = None
    /\ delegated' = <<>>
    /\ ret' = returned("switch_to_pow", TRUE, <<>>, 0)
    /\ UNCHANGED <<chain, pending_transactions, difficulty, mining_reward, balances,
                   now, overflow_checks, panicked, seeded, connections, peers, heartbeat,
                   listener, file, held, todo, mined>>

\* consensus_menu "2"
switch_to_pos ==
    /\ ~panicked
    /\ consensus_type' = "PoS"
    /\ pos_consensus' = <<ProofOfStake_new(PosMinimumStake)>>
    /\ dpos_consensus' = None
    /\ delegated' = <<>>
    /\ ret' = returned("switch_to_pos", TRUE, <<>>, 0)
    /\ UNCHANGED <<chain, pending_transactions, difficulty, mining_reward, balances,
                   now, overflow_checks, panicked, seeded, connections, peers, heartbeat,
                   listener, file, held, todo, mined>>

\* consensus_menu "3"
switch_to_dpos ==
    /\ ~panicked
    /\ consensus_type' = "DPoS"
    /\ pos_consensus' = None
    /\ dpos_consensus' = <<DelegatedProofOfStake_new(DposMinimumStake, DposMinimumDelegation)>>
    /\ delegated' = <<>>
    /\ ret' = returned("switch_to_dpos", TRUE, <<>>, 0)
    /\ UNCHANGED <<chain, pending_transactions, difficulty, mining_reward, balances,
                   now, overflow_checks, panicked, seeded, connections, peers, heartbeat,
                   listener, file, held, todo, mined>>

\* pos_menu "1": pos.stake(validator, amount) on the strategy of the ledger
stake(validator, amount) ==
    /\ ~panicked
    /\ pos_consensus # None
    /\ \E result \in {ProofOfStake_stake(pos_consensus[1], validator, amount, now)} :
          /\ pos_consensus' = <<result.self>>
          /\ ret' = returned("stake", result.ok, <<validator>>, amount)
    /\ UNCHANGED <<chain, pending_transactions, difficulty, mining_reward, balances,
                   now, overflow_checks, panicked, seeded, connections, peers, heartbeat,
                   listener, file, held, todo, mined, consensus_type, dpos_consensus,
                   delegated>>

\* pos_menu "2": pos.unstake(validator)
unstake(validator) ==
    /\ ~panicked
    /\ pos_consensus # None
    /\ \E result \in {ProofOfStake_unstake(pos_consensus[1], validator)} :
          /\ pos_consensus' = <<result.self>>
          /\ ret' = returned("unstake", result.ok, <<validator>>, 0)
    /\ UNCHANGED <<chain, pending_transactions, difficulty, mining_reward, balances,
                   now, overflow_checks, panicked, seeded, connections, peers, heartbeat,
                   listener, file, held, todo, mined, consensus_type, dpos_consensus,
                   delegated>>

\* dpos_menu "1": dpos.register_candidate(candidate, amount)
register(candidate, amount) ==
    /\ ~panicked
    /\ dpos_consensus # None
    /\ \E result \in {register_candidate(dpos_consensus[1], candidate, amount, now)} :
          /\ dpos_consensus' = <<result.self>>
          /\ ret' = returned("register_candidate", result.ok, <<candidate>>, amount)
    /\ UNCHANGED <<chain, pending_transactions, difficulty, mining_reward, balances,
                   now, overflow_checks, panicked, seeded, connections, peers, heartbeat,
                   listener, file, held, todo, mined, consensus_type, pos_consensus,
                   delegated>>

\* dpos_menu "2": dpos.delegate(delegator, candidate, amount)
vote(delegator, candidate, amount) ==
    /\ ~panicked
    /\ dpos_consensus # None
    /\ \E result \in {delegate(dpos_consensus[1], delegator, candidate, amount)} :
          /\ dpos_consensus' = <<result.self>>
          /\ delegated' = IF result.ok
                          THEN Insert(delegated, <<delegator, candidate>>, amount)
                          ELSE delegated
          /\ ret' = returned("delegate", result.ok, <<delegator, candidate>>, amount)
    /\ UNCHANGED <<chain, pending_transactions, difficulty, mining_reward, balances,
                   now, overflow_checks, panicked, seeded, connections, peers, heartbeat,
                   listener, file, held, todo, mined, consensus_type, pos_consensus>>

\* dpos_menu "3" for one candidate: dpos.calculate_candidate_weight(candidate)
\* under the guard of the ledger
weigh(candidate) ==
    /\ ~panicked
    /\ dpos_consensus # None
    /\ \E weight \in {calculate_candidate_weight(dpos_consensus[1], candidate, overflow_checks)} :
          /\ panicked' = weight.panicked
          /\ ret' = [returned("calculate_candidate_weight", ~weight.panicked,
                              <<candidate>>, 0) EXCEPT !.weight = weight.value]
    /\ UNCHANGED <<chain, pending_transactions, difficulty, mining_reward, balances,
                   now, overflow_checks, seeded, connections, peers, heartbeat,
                   listener, file, held, todo, mined, consensus>>

\* dpos.select_validator(&blockchain)
select ==
    /\ ~panicked
    /\ dpos_consensus # None
    /\ \E selected \in {select_validator(dpos_consensus[1], overflow_checks)} :
          /\ panicked' = selected.panicked
          /\ ret' = [returned("select_validator", ~selected.panicked, <<>>, 0)
                        EXCEPT !.selected = selected.value]
    /\ UNCHANGED <<chain, pending_transactions, difficulty, mining_reward, balances,
                   now, overflow_checks, seeded, connections, peers, heartbeat,
                   listener, file, held, todo, mined, consensus>>

\* The strategy of each kind the ledger has, or a new one
this_pos == IF pos_consensus = None THEN ProofOfStake_new(PosMinimumStake) ELSE pos_consensus[1]

this_dpos ==
    IF dpos_consensus = None
    THEN DelegatedProofOfStake_new(DposMinimumStake, DposMinimumDelegation)
    ELSE dpos_consensus[1]

\* validate_transaction(&transaction, &blockchain) of both strategies
validate(transaction) ==
    /\ ~panicked
    /\ ret' = [returned("validate_transaction",
                        ProofOfStake_validate_transaction(this_pos, transaction, balances),
                        <<>>, 0)
                  EXCEPT !.transaction = <<transaction>>,
                         !.valid = DelegatedProofOfStake_validate_transaction(
                                       this_dpos, transaction, balances)]
    /\ UNCHANGED <<chain, pending_transactions, difficulty, mining_reward, balances,
                   now, overflow_checks, panicked, seeded, connections, peers, heartbeat,
                   listener, file, held, todo, mined, consensus>>

\* The names typed in: the second of each kind has a colon in it
Validators == {alice, bob}
Delegators == {alice, alice \o <<Colon>> \o bob}
Candidates == {bob, bob \o <<Colon>> \o bob}

\* The amounts typed in: one below the minimum, the minimum, and for a
\* candidate the minimum of a delegation short of 2^64
StakeAmounts == {PosMinimumStake - 1, PosMinimumStake, PosMinimumStake + 1}
CandidateAmounts == {DposMinimumStake - 1, DposMinimumStake, 0 - DposMinimumDelegation}
DelegationAmounts == {DposMinimumDelegation - 1, DposMinimumDelegation}

SwitchToPoW == switch_to_pow

SwitchToPoS == switch_to_pos

SwitchToDPoS == switch_to_dpos

Stake == \E validator \in Validators, amount \in StakeAmounts : stake(validator, amount)

Unstake == \E validator \in Validators : unstake(validator)

RegisterCandidate ==
    /\ dpos_consensus # None
    /\ Len(dpos_consensus[1].candidates) < MaxCandidates
    /\ \E candidate \in Candidates, amount \in CandidateAmounts : register(candidate, amount)

Delegate ==
    \E delegator \in Delegators, candidate \in Candidates, amount \in DelegationAmounts :
        vote(delegator, candidate, amount)

Weigh == \E candidate \in Candidates : weigh(candidate)

Select == select

ValidateTransaction ==
    \E sender \in {system, alice}, amount \in 0..(MaxSeed + 1) :
        validate(Transaction_new(sender, bob, amount, now))

NextConsensus ==
    \/ Seed
    \/ SwitchToPoW
    \/ SwitchToPoS
    \/ SwitchToDPoS
    \/ Stake
    \/ Unstake
    \/ RegisterCandidate
    \/ Delegate
    \/ Weigh
    \/ Select
    \/ ValidateTransaction

SpecConsensus == Init /\ [][NextConsensus]_vars

(* Properties of the consensus strategies *)

\* C33: stake(validator, amount) fails and leaves the stake table unchanged
\* when amount < minimum_stake; otherwise the table afterwards holds the
\* record of that validator with the new amount, any earlier record being
\* overwritten, and the records of all other validators are unchanged.
C33_Stake ==
    [][(/\ ret'.op = "stake"
        /\ pos_consensus # None
        /\ pos_consensus' # None
        /\ (ret.op # "stake" \/ <<ret, pos_consensus>>' # <<ret, pos_consensus>>)) =>
          LET validator == ret'.names[1]
              amount == ret'.amount
              before == pos_consensus[1]
              after == pos_consensus'[1]
          IN IF U64Less(amount, before.minimum_stake)
             THEN ~ret'.ok /\ after = before
             ELSE /\ ret'.ok
                  /\ DOMAIN after.stakes = DOMAIN before.stakes \cup {validator}
                  /\ after.stakes[validator].amount = amount
                  /\ after.stakes[validator].validator = validator
                  /\ after.minimum_stake = before.minimum_stake
                  /\ \A v \in DOMAIN before.stakes \ {validator} :
                        after.stakes[v] = before.stakes[v]]_vars

\* A stake below the minimum was refused while both validators hold a
\* stake, one of them changed since its first
C33_Witness ==
    /\ ret.op = "stake"
    /\ ~ret.ok
    /\ ret.names = <<alice>>
    /\ ret.amount = PosMinimumStake - 1
    /\ pos_consensus # None
    /\ DOMAIN pos_consensus[1].stakes = Validators
    /\ pos_consensus[1].stakes[alice].amount = PosMinimumStake + 1
    /\ pos_consensus[1].stakes[bob].amount = PosMinimumStake

RECURSIVE Total(_, _)
\* The sum of the values of a table under these keys
Total(table, keys) ==
    IF keys = {} THEN 0
    ELSE LET key == CHOOSE k \in keys : TRUE
         IN table[key] + Total(table, keys \ {key})

\* The stake of the candidate plus the last amount of every delegator that
\* delegated to it
WeightExpected(candidate) ==
    LET own == IF candidate \in DOMAIN dpos_consensus[1].stakes
               THEN dpos_consensus[1].stakes[candidate].amount ELSE 0
        delegations == Total(delegated, {p \in DOMAIN delegated : p[2] = candidate})
    IN [value |-> own + delegations, wraps |-> AddWraps(own, delegations)]

\* C34: after any sequence of register_candidate and delegate calls,
\* calculate_candidate_weight(c) equals the amount of the current stake record
\* of c (0 if none) plus the sum of the latest delegation amount of every
\* delegator whose delegation points at c.
C34_CandidateWeight ==
    [][(/\ ret'.op = "calculate_candidate_weight"
        /\ (ret.op # "calculate_candidate_weight" \/ ret' # ret)) =>
          LET expected == WeightExpected(ret'.names[1])
          IN /\ ret'.ok
             /\ ~expected.wraps
             /\ ret'.weight = expected.value]_vars

\* The weight of a candidate in the u64 arithmetic of the build without
\* overflow checks
Weight(candidate) == calculate_candidate_weight(dpos_consensus[1], candidate, FALSE).value

\* C35: select_validator returns, whenever the candidate list is not empty,
\* the candidate whose weight is maximal among all candidates, among those of
\* equal maximal weight the one registered first; it returns none only when
\* no candidate is registered.
C35_SelectValidator ==
    [][(/\ ret'.op = "select_validator"
        /\ (ret.op # "select_validator" \/ ret' # ret)) =>
          LET candidates == dpos_consensus[1].candidates
          IN IF candidates = <<>> THEN ret'.ok /\ ret'.selected = None
             ELSE /\ ret'.ok
                  /\ ret'.selected # None
                  /\ \E i \in DOMAIN candidates :
                        /\ ret'.selected = <<candidates[i]>>
                        /\ \A j \in DOMAIN candidates :
                              ~U64Less(Weight(candidates[i]), Weight(candidates[j]))
                        /\ \A j \in 1..(i - 1) :
                              U64Less(Weight(candidates[j]), Weight(candidates[i]))]_vars

\* C36: for every transaction and ledger state validate_transaction of the
\* proof-of-stake and of the delegated-proof-of-stake strategy return the
\* same result, true exactly when amount > 0 and the stored balance of the
\* sender is >= amount, whatever the tables of the strategies contain.
C36_ValidateTransaction ==
    [][(/\ ret'.op = "validate_transaction"
        /\ (ret.op # "validate_transaction" \/ ret' # ret)) =>
          LET transaction == ret'.transaction[1]
              expected == /\ transaction.amount # 0
                          /\ ~U64Less(get_balance(balances, transaction.sender),
                                      transaction.amount)
          IN /\ ret'.ok = ret'.valid
             /\ ret'.ok = expected]_vars

\* A transfer of a sender that holds no stake was found valid by a strategy
\* that holds the stake of another
C36_Witness ==
    /\ ret.op = "validate_transaction"
    /\ ret.ok
    /\ ret.valid
    /\ ret.transaction[1].sender = alice
    /\ pos_consensus # None
    /\ DOMAIN pos_consensus[1].stakes = {bob}

(* Properties of a received block *)

\* C37: a NewBlock read from a connection that is valid against the local tip
\* (prev_hash is the hash of the tip, the stored hash is the recomputed one and
\* meets the difficulty) is appended to the local chain: the chain grows by one
\* and its new tip is that block.
C37_ValidBlockAppended ==
    [][\A i \in DOMAIN connections, write_ok \in BOOLEAN :
          (/\ connections[i].acceptor = local
           /\ connections[i].unread # <<>>
           /\ Head(connections[i].unread).kind = "NewBlock"
           /\ Block_is_valid(Head(connections[i].unread).payload[1],
                             get_latest_block(chain).header.hash)
           /\ process_message(i, write_ok))
          => /\ Len(chain') = Len(chain) + 1
             /\ get_latest_block(chain') = Head(connections[i].unread).payload[1]
      ]_vars

(* Properties of the debits *)

\* C38: balance recomputation never subtracts more than the sender holds:
\* every debit update_balances applies is <= the balance of the sender at
\* that point, so that no balance underflows, also when several pending
\* transactions of one sender together exceed its balance.
C38_DebitsCovered ==
    [][chain' # chain => ~update_balances(balances, chain', TRUE).panicked]_vars

(* Properties of the length of the chain *)

\* C40: the chain of a ledger created by new() is never empty: after any
\* sequence of local operations and inbound messages it has at least one
\* block, so that get_latest_block always has a block to return.
C40_ChainNeverEmpty ==
    /\ Len(chain) >= 1
    /\ get_latest_block(chain).height \in Nat

\* A ResponseChain without blocks was read by a node whose chain had grown,
\* and left it alone
C40_Witness ==
    /\ ret.op = "handle_chain_response"
    /\ ret.err = "empty"
    /\ Len(chain) > 1

====
